---- MODULE Spec2Model ----
(***************************************************************************)
(* mcpews: one ServerSession (server role, optionally wrapped by an        *)
(* AppSession) and one WSClient (client role) joined by two in-order       *)
(* message channels.  Strings are sequences of atoms (small integers), so  *)
(* that join / split / startsWith are computed, not assumed.               *)
(***************************************************************************)
EXTENDS Integers, Sequences, FiniteSets, TLC

(* ------------------------------ bounds -------------------------------- *)
MaxId == 2
MaxMsgs == 2
MaxSalt == 1
MaxSockets == 2
BracePeriod == 2

(* ------------------------- protocol constants ------------------------- *)
V0_0_1 == 1
V1_0_0 == 16777216
V1_1_0 == 16842752

\* requestId: 0 is the all-zeros sentinel UUID, 1..MaxId are random UUIDs.
Sentinel == 0
Ids == 1 .. MaxId

(* ------------------------------ strings ------------------------------- *)
\* Atoms of a string.  SP is the space character; the others are words
\* without spaces.
SP == 0
W_say == 1
W_hi == 2
W_there == 3
W_enableencryption == 4
M_cfb8 == 11
M_cfb == 12
M_cfb128 == 13
Modes == {M_cfb8, M_cfb, M_cfb128}
\* base64 text of a DER public key / of a salt, and the JSON text of a string
KeyBase == 20
SaltBase == 40
QuoteBase == 100

Absent == -1

\* JSON.stringify(s) of a one-atom string s, and JSON.parse of such a text
JSONstringify(a) == a + QuoteBase
JSONparseOk(a) == a >= QuoteBase
JSONparse(a) == a - QuoteBase

\* Array.prototype.join(' ')
RECURSIVE Join(_)
Join(arr) ==
    IF arr = <<>> THEN <<>>
    ELSE IF Len(arr) = 1 THEN arr[1]
    ELSE arr[1] \o <<SP>> \o Join(Tail(arr))

\* String.prototype.split(' '): the pieces between single spaces
RECURSIVE Split(_)
Split(str) ==
    IF \A i \in 1 .. Len(str) : str[i] # SP THEN <<str>>
    ELSE LET i == CHOOSE k \in 1 .. Len(str) :
                      str[k] = SP /\ \A j \in 1 .. k - 1 : str[j] # SP
         IN  <<SubSeq(str, 1, i - 1)>> \o Split(SubSeq(str, i + 1, Len(str)))

StartsWith(str, prefix) ==
    Len(str) >= Len(prefix) /\ SubSeq(str, 1, Len(prefix)) = prefix

\* A command argument: a string, or an array of token strings.
StrCmd(s) == [isArray |-> FALSE, str |-> s, arr |-> <<>>]
ArrCmd(a) == [isArray |-> TRUE, str |-> <<>>, arr |-> a]

\* Array.isArray(command) ? command.join(' ') : command
CommandLineOf(cmd) == IF cmd.isArray THEN Join(cmd.arr) ELSE cmd.str

Commands ==
    { StrCmd(<<W_say, SP, W_hi>>),
      ArrCmd(<< <<W_say>>, <<W_hi, SP, W_there>> >>) }

(* ------------------------------- frames ------------------------------- *)
\* A JSON number n that may be absent: n = q * 2^31 + r with 0 <= r < 2^31
Num(q, r) == [present |-> TRUE, q |-> q, r |-> r]
NoNum == [present |-> FALSE, q |-> 0, r |-> 0]
Zero == Num(0, 0)

\* The chat fields of a body: { sender, receiver, message } of a chat
\* subscription, { type, sender, receiver, message } of a chat event
NoChat ==
    [sender |-> Absent, receiver |-> Absent, message |-> Absent, type |-> ""]

NoBody ==
    [ commandLine |-> <<>>, eventName |-> Absent, statusCode |-> NoNum,
      statusMessage |-> Absent,
      publicKey |-> Absent, salt |-> Absent, mode |-> Absent,
      chat |-> NoChat, requestId |-> Absent, data |-> Absent ]

CommandBody(line) == [NoBody EXCEPT !.commandLine = line]
EventNameBody(n) == [NoBody EXCEPT !.eventName = n]
StatusBody(code) == [NoBody EXCEPT !.statusCode = code]
ErrorBody(code, message) ==
    [NoBody EXCEPT !.statusCode = code, !.statusMessage = message]
ChatSubscribeBody(sender, receiver, message) ==
    [NoBody EXCEPT !.chat = [ NoChat EXCEPT !.sender = sender,
                                             !.receiver = receiver,
                                             !.message = message ]]
ChatEventBody(type, sender, receiver, message) ==
    [NoBody EXCEPT !.chat = [ sender |-> sender, receiver |-> receiver,
                              message |-> message, type |-> type ]]
ChatUnsubscribeBody(requestId) == [NoBody EXCEPT !.requestId = requestId]
\* A body that is application data: the answer of a data responder, of
\* respondCommand or of respondAgentAction
DataBody(data) == [NoBody EXCEPT !.data = data]
EncryptRequestBody(mode, pk, salt) ==
    [NoBody EXCEPT !.mode = mode, !.publicKey = pk, !.salt = salt]
EncryptResponseBody(pk) == [NoBody EXCEPT !.publicKey = pk]
LegacyEncryptResponseBody(pk) ==
    [NoBody EXCEPT !.publicKey = pk, !.statusCode = Zero]

\* The envelope built by Session.sendFrame.  header tells what the header
\* member of the JSON object is: "object" with the fields below, "empty"
\* (an object without them, the fields below are then undefined) or
\* "missing" (undefined or null).
Message(version, purpose, body, requestId, eventName) ==
    [ header |-> "object",
      version |-> version, requestId |-> requestId, purpose |-> purpose,
      eventName |-> eventName, dataType |-> "", type |-> Absent,
      action |-> Absent, actionName |-> "", body |-> body ]

NoMessage == Message(0, "", NoBody, Sentinel, Absent)

(* --------------------------- encryption ------------------------------- *)
\* An Encryption object: its ECDH private key, and once the key exchange is
\* complete (active) the cipher and decipher it holds.
NoEncryption == [active |-> FALSE, obj |-> 0, priv |-> 0, alg |-> 0,
                 salt |-> 0, secret |-> 0, encPos |-> 0, decPos |-> 0]

\* cipherAlgorithms: cfb128 is an alias of cfb
cipherAlgorithm(mode) == IF mode = M_cfb8 THEN M_cfb8 ELSE M_cfb

\* ECDH on secp384r1: the public key of private key x, and the shared secret
PubKeyOf(priv) == priv
computeSecret(priv, peerPub) == priv * peerPub

\* asOpenSSLPubKey prepends the ASN.1 header, asNodejsPubKey removes it
asOpenSSLPubKey(pub) == KeyBase + pub
asNodejsPubKey(text) == text - KeyBase
ValidPubKeyText(text) == text > KeyBase /\ text < SaltBase

\* Encryption.initializeCipher: key = SHA-256(salt || secret), iv = key[0..16)
initializeCipher(e, mode, secret, salt) ==
    [ e EXCEPT !.active = TRUE, !.alg = cipherAlgorithm(mode),
               !.salt = salt, !.secret = secret, !.encPos = 0, !.decPos = 0 ]

\* Bytes on the wire: either the JSON text of msg (cipher = FALSE) or the
\* output of a cipher keyed (alg, salt, secret) that had already processed
\* pos earlier messages.
Plain(msg) ==
    [ cipher |-> FALSE, alg |-> 0, salt |-> 0, secret |-> 0, pos |-> 0,
      msg |-> msg ]

\* Encryption.encrypt: cipher.update(str)
encrypt(e, msg) ==
    [ cipher |-> TRUE, alg |-> e.alg, salt |-> e.salt, secret |-> e.secret,
      pos |-> e.encPos, msg |-> msg ]

\* A text: valid JSON for msg, or bytes that are not JSON
Text(msg) == [json |-> TRUE, msg |-> msg]
Garbage == [json |-> FALSE, msg |-> NoMessage]

\* Encryption.decrypt: decipher.update(buffer).  The decipher yields the
\* plaintext only for bytes produced by the same key stream at the same
\* position.
decrypt(e, data) ==
    IF data.cipher /\ data.alg = e.alg /\ data.salt = e.salt
       /\ data.secret = e.secret /\ data.pos = e.decPos
    THEN Text(data.msg) ELSE Garbage

\* String(messageData).trim().startsWith('{').  JSON text of an object always
\* does.  Cipher output is key-stream dependent: its first byte is '{' when
\* the key stream byte at that position is zero.
StartsWithBrace(data) ==
    IF data.cipher THEN (data.salt + data.secret + data.pos) % BracePeriod = 0
    ELSE TRUE

\* String(decryptedMessageData) when the decipher is not applied
RawText(data) == IF data.cipher THEN Garbage ELSE Text(data.msg)

\* JSON.parse(String(decryptedMessageData)), then
\* const { header, body } = message and
\* const { messagePurpose: purpose, requestId, version } = header:
\* JSON.parse throws on text that is not JSON, the second destructuring
\* throws on a header that is undefined or null and on nothing else.
ParseThrows(text) == ~text.json \/ text.msg.header = "missing"

\* JSON text of an object without a header, and of { header: {} }
NoHeaderMessage == [NoMessage EXCEPT !.header = "missing"]
EmptyHeaderMessage ==
    [NoMessage EXCEPT !.header = "empty", !.requestId = Absent,
                      !.version = Absent]

\* Bytes that are neither JSON nor the output of any session cipher
Malformed ==
    [ cipher |-> TRUE, alg |-> 0, salt |-> 0, secret |-> 0, pos |-> 0,
      msg |-> NoMessage ]

(* ------------------------------ state --------------------------------- *)
VARIABLES
    nextId,     \* randomUUID(): the next fresh request id
    nextObj,    \* identity of the next Encryption object constructed
    toClient,   \* every message the server socket has sent, in order
    toServer,   \* every message the client socket has sent, in order
    cRead,      \* how many messages of toClient the client has received
    sRead,      \* how many messages of toServer the server has received
    session,    \* the ServerSession
    client,     \* the WSClient
    sObs,       \* what the server's last inbound dispatch did
    cObs,       \* what the client's last inbound dispatch / last call did
    callbacks,  \* per request id: the frames its sendCommand callback got
    app,        \* AppSession: per request id, the awaited command
    op,         \* the last API call made and what it returned
    heard,      \* event names whose last subscription frame received by the
                \* client was a subscribe
    server      \* the WSServer: its session set, and per accepted socket the
                \* socket's state, its ServerSession and what it has sent

vars == << nextId, nextObj, toClient, toServer, cRead, sRead, session, client,
           sObs, cObs, callbacks, app, op, heard, server >>

EventNames == {1, 2}
Listeners == {"L1", "L2"}

(* --------------------------- Map helpers ------------------------------ *)
MapSet(m, k, v) == [x \in DOMAIN m \cup {k} |-> IF x = k THEN v ELSE m[x]]
MapDelete(m, k) == [x \in DOMAIN m \ {k} |-> m[x]]
MapHas(m, k) == k \in DOMAIN m
EmptyMap == [x \in {} |-> 0]

(* ------------------------------ Session ------------------------------- *)
\* A responder closure: what registered it and the values it captured.
\* kind: the method that registered it; cb: the callback it wraps ("user": a
\* callback of the application, "app": AppSession's, "enableEncryption":
\* the completion closure of the legacy handshake); enc, mode, then: the
\* ServerEncryption, mode and callback captured by enableEncryption.
Responder(kind, cb, enc, mode, then) ==
    [kind |-> kind, cb |-> cb, enc |-> enc, mode |-> mode, then |-> then]

\* A ServerEncryption / ClientEncryption object before completeKeyExchange
NewEncryption(obj, priv, salt) ==
    [NoEncryption EXCEPT !.obj = obj, !.priv = priv, !.salt = salt]

NoObs ==
    [ wire |-> Plain(NoMessage), parsed |-> FALSE, frame |-> NoMessage,
      message |-> 0,
      hasResponser |-> FALSE, responser |-> 0, respRet |-> "none",
      hasHandler |-> FALSE, handler |-> 0, handRet |-> "none",
      customFrame |-> 0, errors |-> 0, emits |-> {}, clientError |-> <<>>,
      chatFrame |-> <<>>, cbFrame |-> <<>>,
      eventName |-> Absent, invoked |-> {}, trace |-> <<>>, order |-> <<>>,
      disconnects |-> 0, deciphered |-> FALSE,
      out |-> <<>>, encBefore |-> NoEncryption, beh |-> "none",
      handshake |-> "none",
      publish |-> "none", pubName |-> Absent, pubHeard |-> FALSE ]

\* Session constructor, 'message' listener: the decrypt-and-parse part.
\* Yields the session's new encrypted flag and decipher position and the
\* text handed to JSON.parse.
Decode(s, data) ==
    LET latched == IF s.encryption.active /\ ~s.encrypted
                      /\ ~StartsWithBrace(data)
                   THEN TRUE ELSE s.encrypted
        useDecipher == s.encryption.active /\ latched
    IN  [ encrypted |-> latched, deciphered |-> useDecipher,
          encryption |-> IF useDecipher
                         THEN [s.encryption EXCEPT !.decPos = @ + 1]
                         ELSE s.encryption,
          text |-> IF useDecipher THEN decrypt(s.encryption, data)
                   ELSE RawText(data) ]

IsBoolean(ret) == ret \in {"true", "false"}

\* Session constructor, 'message' listener: which of responder, handler and
\* customFrame run, given what the responder and the handler return
\* ("true", "false", "undefined", or "throw"; a throw leaves ret undefined).
DispatchPlan(hasResp, respRet, hasHand, handRet) ==
    LET stop1 == hasResp /\ IsBoolean(respRet)
        runHandler == ~stop1 /\ hasHand
        stop2 == runHandler /\ IsBoolean(handRet)
    IN  [ responser |-> hasResp,
          handler |-> runHandler,
          customFrame |-> ~stop1 /\ ~stop2,
          deleteResponser |-> hasResp /\ respRet = "true",
          deleteHandler |-> runHandler /\ handRet = "true" ]

\* A faulty variant of DispatchOrder: 'message' after the dispatch
DispatchThenMessage(plan) ==
    (IF plan.responser THEN <<"responser">> ELSE <<>>)
      \o (IF plan.handler THEN <<"handler">> ELSE <<>>)
      \o (IF plan.customFrame THEN <<"customFrame">> ELSE <<>>)
      \o <<"message">>

\* Session constructor, 'message' listener: the order in which the frame is
\* handed on: this.emit('message', frame), then the responder, then the
\* handler, then this.emit('customFrame', frame)
DispatchOrder(plan) ==
    <<"message">>
      \o (IF plan.responser THEN <<"responser">> ELSE <<>>)
      \o (IF plan.handler THEN <<"handler">> ELSE <<>>)
      \o (IF plan.customFrame THEN <<"customFrame">> ELSE <<>>)

\* Session.sendMessage: JSON.stringify, encrypt when this.encryption is set
sendMessage(s, msg) ==
    [ data |-> IF s.encryption.active THEN encrypt(s.encryption, msg)
               ELSE Plain(msg),
      sess |-> IF s.encryption.active
               THEN [s EXCEPT !.encryption.encPos = @ + 1] ELSE s ]

\* Session.sendFrame without extra headers
sendFrame(s, purpose, body, requestId) ==
    sendMessage(s, Message(s.version, purpose, body, requestId, Absent))

\* Session.sendFrame(purpose, body, requestId, extraHeaders): extraHeaders
\* names the header fields it sets
sendFrameWith(s, purpose, body, requestId, extraHeaders) ==
    sendMessage(s,
        [ k \in DOMAIN Message(s.version, purpose, body, requestId, Absent) |->
            IF k \in DOMAIN extraHeaders THEN extraHeaders[k]
            ELSE Message(s.version, purpose, body, requestId, Absent)[k] ])

\* Session.setResponser / clearResponser.  setResponser throws when the id
\* is registered; threw tells so.
CanSetResponser(s, requestId) == ~MapHas(s.responserMap, requestId)

\* A faulty variant of setResponser that replaces a registered responder
setResponserOverwrites(s, requestId, r) ==
    [ sess |-> [s EXCEPT !.responserMap = MapSet(@, requestId, r)],
      threw |-> FALSE ]

setResponser(s, requestId, r) ==
    IF MapHas(s.responserMap, requestId)
    THEN [sess |-> s, threw |-> TRUE]
    ELSE [ sess |-> [s EXCEPT !.responserMap = MapSet(@, requestId, r)],
           threw |-> FALSE ]
clearResponser(s, requestId) ==
    [s EXCEPT !.responserMap = MapDelete(@, requestId)]

\* Session.setHandler / clearHandler.  setHandler throws when the purpose
\* has a handler.
setHandler(s, purpose, h) ==
    IF MapHas(s.handlerMap, purpose)
    THEN [sess |-> s, threw |-> TRUE]
    ELSE [ sess |-> [s EXCEPT !.handlerMap = MapSet(@, purpose, h)],
           threw |-> FALSE ]
clearHandler(s, purpose) ==
    [s EXCEPT !.handlerMap = MapDelete(@, purpose)]

\* Session.setEncryption
setEncryption(s, e) == [s EXCEPT !.encryption = e]

(* ------------------------------- Init --------------------------------- *)
NewServerSession(version) ==
    [ version |-> version, encrypted |-> FALSE, encryption |-> NoEncryption,
      responserMap |-> EmptyMap,
      handlerMap |-> [p \in {"event", "chat", "commandResponse", "error"} |->
                        IF p \in {"event", "chat"} THEN "eventHandler" ELSE p],
      exchangingKey |-> FALSE,
      eventListeners |-> EmptyMap,
      chatResponsers |-> {},
      socket |-> "open" ]

\* The closure state of the EncryptRequest event last emitted by the client
NoEncryptRequest ==
    [emitted |-> FALSE, cancelled |-> FALSE, completed |-> FALSE]

NewWSClient(version) ==
    [ version |-> version, encrypted |-> FALSE, encryption |-> NoEncryption,
      responserMap |-> EmptyMap,
      handlerMap |-> [p \in {"subscribe", "unsubscribe", "commandRequest",
                             "action:agent", "chat:subscribe",
                             "chat:unsubscribe", "ws:encrypt"} |-> p],
      eventListenMap |-> EmptyMap,
      encryptRequest |-> NoEncryptRequest ]

\* A promise handed out by AppSession: kind "command" (command /
\* commandLegacy) or "encrypt" (enableEncryption); state "none" (never
\* created), "pending", "resolved" or "rejected"; listening: p-event's error
\* listeners are attached to the session named by on; timer: p-timeout's
\* timer.
NoAwait ==
    [ kind |-> "", state |-> "none", why |-> "", listening |-> FALSE,
      on |-> "this",
      timer |-> "none", cancelled |-> FALSE,
      delivered |-> NoMessage, value |-> NoMessage, message |-> Absent ]

\* An API call: its name, the request id it drew, what it returned, the
\* messages it sent, its argument, and the listener set of the event name
\* before and after it.
NoOp == [ name |-> "", id |-> Sentinel, ret |-> "", out |-> <<>>, arg |-> <<>>,
          before |-> {}, after |-> {} ]

\* The messages appended to a log by one step
Sent(log, logAfter) == SubSeq(logAfter, Len(log) + 1, Len(logAfter))

\* The sockets the WSServer may accept, each a connection of its own
Sockets == 1 .. MaxSockets

\* WSServer constructor: this.sessions = new Set(), this.version = V0_0_1.
\* socket[i] is the state of the i-th socket ("none" before it connects),
\* session[i] the ServerSession made for it, sent[i] what that session has
\* written to it.
NewWSServer ==
    [ sessions |-> {}, version |-> V0_0_1,
      socket |-> [i \in Sockets |-> "none"],
      session |-> [i \in Sockets |-> NewServerSession(V0_0_1)],
      sent |-> [i \in Sockets |-> <<>>] ]

Init ==
    /\ nextId = 1
    /\ nextObj = 1
    /\ toClient = <<>>
    /\ toServer = <<>>
    /\ cRead = 0
    /\ sRead = 0
    /\ session = NewServerSession(V0_0_1)
    /\ client = NewWSClient(V0_0_1)
    /\ sObs = NoObs
    /\ cObs = NoObs
    /\ callbacks = [i \in Ids |-> <<>>]
    /\ app = [i \in Ids |-> NoAwait]
    /\ op = NoOp
    /\ heard = {}
    /\ server = NewWSServer

(* --------------------------- ServerSession ---------------------------- *)
\* The application assigns session.version before it sends anything
SetVersion(version) ==
    /\ toClient = <<>> /\ op = NoOp
    /\ session.version # version
    /\ session' = [session EXCEPT !.version = version]
    /\ UNCHANGED << nextId, nextObj, toClient, toServer, cRead, sRead, client,
                    sObs, cObs, callbacks, app, op, heard, server >>

\* crypto.randomUUID()
randomUUID == nextId

CanSend(log) == Len(log) < MaxMsgs

\* ServerSession.sendCommandRaw
sendCommandRaw(s, requestId, cmd) ==
    sendFrame(s, "commandRequest", CommandBody(CommandLineOf(cmd)), requestId)

\* ServerSession.sendCommand(command, callback): the responder is registered
\* only when a callback is given; cb names the callback.
sendCommand(s, requestId, cmd, cb, enc, mode, then) ==
    sendCommandRaw(
        IF cb # "none"
        THEN setResponser(s, requestId,
                          Responder("command", cb, enc, mode, then)).sess
        ELSE s,
        requestId, cmd)

SendCommand(cmd, cb) ==
    /\ nextId <= MaxId
    /\ CanSend(toClient)
    /\ LET requestId == randomUUID
           r == sendCommand(session, requestId, cmd, cb, NoEncryption, Absent,
                            "none")
       IN  /\ CanSetResponser(session, requestId) \/ cb = "none"
           /\ session' = r.sess
           /\ toClient' = Append(toClient, r.data)
           /\ op' = [ NoOp EXCEPT
                      !.name = "sendCommand", !.id = requestId, !.ret = cb,
                      !.out = Sent(toClient, toClient'),
                      !.arg = IF cmd.isArray THEN cmd.arr ELSE <<cmd.str>> ]
    /\ nextId' = nextId + 1
    /\ UNCHANGED << nextObj, toServer, cRead, sRead, client, sObs, cObs,
                    callbacks, app, heard, server >>

\* A faulty variant of cancelCommandRequest that keeps the responder
cancelCommandRequestKeeps(s, requestId) == s

\* ServerSession.cancelCommandRequest
cancelCommandRequest(s, requestId) == clearResponser(s, requestId)

\* The application cancels a command it sent with a callback of its own
CancelCommandRequest(requestId) ==
    /\ MapHas(session.responserMap, requestId)
    /\ session.responserMap[requestId].cb \in {"user", "userThrows"}
    /\ session' = cancelCommandRequest(session, requestId)
    /\ op' = [NoOp EXCEPT !.name = "cancelCommandRequest", !.id = requestId]
    /\ UNCHANGED << nextId, nextObj, toClient, toServer, cRead, sRead, client,
                    sObs, cObs, callbacks, app, heard, server >>

\* ServerEncryption.completeKeyExchange: throws on a malformed public key
CanCompleteKeyExchange(pubKeyText) == ValidPubKeyText(pubKeyText)
serverCompleteKeyExchange(e, mode, clientPubKeyText) ==
    initializeCipher(e, mode,
                     computeSecret(e.priv, asNodejsPubKey(clientPubKeyText)),
                     e.salt)

\* header.eventName ?? body.eventName ?? ''
EmptyName == 0

\* A faulty variant of EventNameOf that reads the header only
EventNameOfHeader(frame) ==
    IF frame.eventName # Absent THEN frame.eventName ELSE EmptyName

EventNameOf(frame) ==
    IF frame.eventName # Absent THEN frame.eventName
    ELSE IF frame.body.eventName # Absent THEN frame.body.eventName
    ELSE EmptyName

\* The completion closure of enableEncryption (both dialects): clears
\* exchangingKey, completes the key exchange (which may throw), installs the
\* encryption and calls the callback.
CompleteHandshake(s, r, frame) ==
    LET s1 == [s EXCEPT !.exchangingKey = FALSE]
    IN  IF CanCompleteKeyExchange(frame.body.publicKey)
        THEN [ ret |-> "true",
               sess |-> setEncryption(s1,
                   serverCompleteKeyExchange(r.enc, r.mode,
                                             frame.body.publicKey)),
               called |-> r.then,
               settle |-> IF r.then = "app" THEN "resolved" ELSE "none",
               emits |-> {"encryptionEnabled"} ]
        ELSE [ ret |-> "throw", sess |-> s1, called |-> "none",
               settle |-> "none", emits |-> {} ]

\* 1 << 31 as a 32-bit signed integer
ERRORCODE_MASK == -2147483647 - 1
\* ToInt32 of a number, the operand conversion of the & operator
ToInt32(code) ==
    IF code.q % 2 = 1 THEN ERRORCODE_MASK + code.r ELSE code.r
\* !statusCode: undefined and 0 are falsy
Falsy(code) == ~code.present \/ code = Zero
\* A faulty variant of HighBitSet: the sign of the number instead of bit 31
HighBitSetBySign(code) == code.q < 0
\* (statusCode & ERRORCODE_MASK) !== 0: the sign bit is the only bit of the
\* mask
HighBitSet(code) == ToInt32(code) < 0

\* The responders registered by ServerSession methods.  ret is what the
\* responder returns, called the callback it invoked, settle how the awaited
\* command's callbackPromise is settled.
RunServerResponser(s, r, frame) ==
    LET idle == [ ret |-> "undefined", sess |-> s, called |-> "none",
                  settle |-> "none", emits |-> {} ]
    IN  IF r.kind = "command" /\ frame.purpose = "commandResponse"
        THEN IF r.cb = "enableEncryption" THEN CompleteHandshake(s, r, frame)
             ELSE IF r.cb = "app"
             THEN [ idle EXCEPT !.ret = "true", !.called = "app",
                       !.settle =
                          IF Falsy(frame.body.statusCode)
                             \/ ~HighBitSet(frame.body.statusCode)
                          THEN "resolved" ELSE "rejected" ]
             ELSE \* callback.call(this, frame); return true
                  [ idle EXCEPT
                      !.ret = IF r.cb = "userThrows" THEN "throw" ELSE "true",
                      !.called = "user" ]
        ELSE IF r.kind = "encrypt" /\ frame.purpose = "ws:encrypt"
        THEN CompleteHandshake(s, r, frame)
        ELSE IF r.kind = "chat" /\ frame.purpose = "chat"
        THEN \* callback.call(this, chatFrame); the responder returns nothing
             [idle EXCEPT !.called = "user"]
        ELSE IF \/ r.kind = "data" /\ frame.purpose = "data"
                \/ r.kind = "agent" /\ frame.purpose = "action:agent"
        THEN \* callback.call(this, dataFrame / agentActionFrame); return true
             [idle EXCEPT !.ret = "true", !.called = "user"]
        ELSE idle

\* The DataFrame the responder of fetchData hands to the callback:
\* { ...frameBase, dataType: '' }
DataFrame(frame) == [frame EXCEPT !.dataType = ""]

\* The frame the responder of sendAgentCommand hands to the callback:
\* { ...frame, action, actionName }; no other field is added, so its
\* commandResponse is undefined
AgentActionResponseFrame(frame) ==
    [ requestId |-> frame.requestId, purpose |-> frame.purpose,
      body |-> frame.body, action |-> frame.action,
      actionName |-> frame.actionName,
      commandResponse |-> [ defined |-> FALSE, requestId |-> Absent,
                            body |-> NoBody ] ]

\* The ChatEventFrame the responder of subscribeChat hands to the callback
ChatFrame(frame) ==
    [ requestId |-> frame.requestId, eventName |-> EventNameOf(frame),
      sender |-> frame.body.chat.sender,
      receiver |-> frame.body.chat.receiver,
      chatMessage |-> frame.body.chat.message,
      chatType |-> frame.body.chat.type ]

\* new ClientError(frame)
ClientError(frame) ==
    [ frame |-> frame, requestId |-> frame.requestId,
      statusCode |-> frame.body.statusCode,
      statusMessage |-> frame.body.statusMessage ]

ListenersOf(s, eventName) ==
    IF MapHas(s.eventListeners, eventName) THEN s.eventListeners[eventName]
    ELSE {}

\* ServerSession.subscribeRaw / unsubscribeRaw
subscribeRaw(s, eventName) ==
    sendFrame(s, "subscribe", EventNameBody(eventName), Sentinel)
unsubscribeRaw(s, eventName) ==
    sendFrame(s, "unsubscribe", EventNameBody(eventName), Sentinel)

\* A faulty variant of subscribe: a subscribe frame for every listener
subscribeAlways(s, eventName, listener) ==
    LET r == subscribeRaw(s, eventName)
    IN  [ sess |-> [r.sess EXCEPT !.eventListeners =
                       MapSet(@, eventName,
                              ListenersOf(s, eventName) \cup {listener})],
          out |-> <<r.data>> ]

\* ServerSession.subscribe
subscribe(s, eventName, listener) ==
    IF ~MapHas(s.eventListeners, eventName)
    THEN LET r == subscribeRaw(s, eventName)
         IN  [ sess |-> [r.sess EXCEPT !.eventListeners =
                            MapSet(@, eventName, {listener})],
               out |-> <<r.data>> ]
    ELSE [ sess |-> [s EXCEPT !.eventListeners[eventName] = @ \cup {listener}],
           out |-> <<>> ]

\* ServerSession.unsubscribe
unsubscribe(s, eventName, listener) ==
    IF ~MapHas(s.eventListeners, eventName) THEN [sess |-> s, out |-> <<>>]
    ELSE LET left == s.eventListeners[eventName] \ {listener}
         IN  IF left = {}
             THEN LET r == unsubscribeRaw(
                              [s EXCEPT !.eventListeners =
                                  MapDelete(@, eventName)], eventName)
                  IN  [sess |-> r.sess, out |-> <<r.data>>]
             ELSE [ sess |-> [s EXCEPT !.eventListeners[eventName] = left],
                    out |-> <<>> ]

\* The listeners AppSession.once registers for its k-th call: the wrapped
\* listener (of a listener that returns, or of one that throws) and the
\* holder
WrappedListeners == <<"W1", "W2", "W3", "W4">>
ThrowingListeners == <<"X1", "X2", "X3", "X4">>
HolderListeners == <<"H1", "H2", "H3", "H4">>
IsWrapped(l) ==
    \E k \in DOMAIN WrappedListeners :
        l \in {WrappedListeners[k], ThrowingListeners[k]}
OnceOf(l) ==
    CHOOSE k \in DOMAIN WrappedListeners :
        l \in {WrappedListeners[k], ThrowingListeners[k]}

\* A faulty variant of once that registers no holder
onceWithoutHolder(s, eventName, k, throws) ==
    subscribe(s, eventName,
              IF throws THEN ThrowingListeners[k] ELSE WrappedListeners[k])

\* AppSession.once(eventName, listener) for an event name other than
\* 'Disconnect': on(eventName, wrappedListener); on(eventName, holderListener)
once(s, eventName, k, throws) ==
    LET r1 == subscribe(s, eventName,
                        IF throws THEN ThrowingListeners[k]
                        ELSE WrappedListeners[k])
        r2 == subscribe(r1.sess, eventName, HolderListeners[k])
    IN  [sess |-> r2.sess, out |-> r1.out \o r2.out]

\* wrappedListener of AppSession.once: off(wrapped); listener.call(frame);
\* off(holder), the last skipped when the listener throws.  trace lists, in
\* order, the unsubscribe frames sent and the call of the listener.
wrappedListener(s, eventName, l) ==
    LET r1 == unsubscribe(s, eventName, l)
        threw == \E k \in DOMAIN ThrowingListeners :
                     l = ThrowingListeners[k]
        r2 == IF threw THEN [sess |-> r1.sess, out |-> <<>>]
              ELSE unsubscribe(r1.sess, eventName, HolderListeners[OnceOf(l)])
    IN  [ sess |-> r2.sess, out |-> r1.out \o r2.out,
          trace |-> [i \in DOMAIN r1.out |-> "unsubscribe"]
                       \o <<"listener">>
                       \o [i \in DOMAIN r2.out |-> "unsubscribe"],
          called |-> <<OnceOf(l)>>,
          errors |-> IF threw THEN 1 ELSE 0 ]

\* A listener of the application that, when called, subscribes another
\* listener under the same event name
SubscribingListener == "S1"
SubscribedLate == "L2"

\* e.call(this, eventFrame) inside try / catch: what calling listener l does
\* to the session.  The wrapped listeners of once and the subscribing
\* listener act on the session; the others return.
listenerCall(s, eventName, l) ==
    IF IsWrapped(l) THEN wrappedListener(s, eventName, l)
    ELSE IF l = SubscribingListener
    THEN LET r == subscribe(s, eventName, SubscribedLate)
         IN  [ sess |-> r.sess, out |-> r.out, trace |-> <<>>,
               called |-> <<>>, errors |-> 0 ]
    ELSE [ sess |-> s, out |-> <<>>, trace |-> <<>>, called |-> <<>>,
           errors |-> 0 ]

\* The listener forEach visits next.  The listeners that act on the session
\* are taken first: a wrapped listener of once is inserted before its
\* holder.
NextListener(listeners) ==
    IF \E x \in listeners : IsWrapped(x) \/ x = SubscribingListener
    THEN CHOOSE x \in listeners : IsWrapped(x) \/ x = SubscribingListener
    ELSE CHOOSE x \in listeners : TRUE

NoneCalled ==
    [ sess |-> <<>>, out |-> <<>>, trace |-> <<>>, called |-> <<>>,
      errors |-> 0, invoked |-> {} ]

\* The outcome of calling l (r) followed by the outcome of the rest
ThenRest(l, r, rest) ==
    [ sess |-> rest.sess, out |-> r.out \o rest.out,
      trace |-> r.trace \o rest.trace,
      called |-> r.called \o rest.called,
      errors |-> r.errors + rest.errors,
      invoked |-> {l} \cup rest.invoked ]

\* A faulty variant of the dispatch that iterates the live Set: a listener
\* removed before its turn is skipped, one added during the dispatch runs
RECURSIVE forEachLive(_, _, _)
forEachLive(s, eventName, listeners) ==
    IF listeners \cap ListenersOf(s, eventName) = {}
    THEN [NoneCalled EXCEPT !.sess = s]
    ELSE CHOOSE done \in UNION {
             { ThenRest(l, r, rest) :
                 rest \in { forEachLive(
                     r.sess, eventName,
                     ((listeners \cap ListenersOf(s, eventName)) \ {l})
                       \cup (ListenersOf(r.sess, eventName)
                               \ ListenersOf(s, eventName))) } } :
             l \in {NextListener(listeners \cap ListenersOf(s, eventName))},
             r \in {listenerCall(
                      s, eventName,
                      NextListener(listeners
                                     \cap ListenersOf(s, eventName)))} } :
           TRUE

\* eventHandler: listenersCopy.forEach, each call in try / catch, so that
\* every member of the copy is called whatever the earlier ones did or threw
RECURSIVE forEachListener(_, _, _)
forEachListener(s, eventName, listenersCopy) ==
    IF listenersCopy = {} THEN [NoneCalled EXCEPT !.sess = s]
    ELSE CHOOSE done \in UNION {
             { ThenRest(l, r, rest) :
                 rest \in { forEachListener(r.sess, eventName,
                                            listenersCopy \ {l}) } } :
             l \in {NextListener(listenersCopy)},
             r \in {listenerCall(s, eventName,
                                 NextListener(listenersCopy))} } :
           TRUE

\* A faulty variant of HasListeners: the generic 'event' for every frame
NeverHasListeners(s, eventName) == FALSE

\* const listeners = this.eventListeners.get(eventName); if (listeners)
HasListeners(s, eventName) == MapHas(s.eventListeners, eventName)

\* The purpose handlers installed by the ServerSession constructor; a
\* handler of the application returns undefined
RunServerHandler(s, h, frame) ==
    LET idle == [ ret |-> "false", emits |-> {}, invoked |-> {}, sess |-> s,
                  out |-> <<>>, trace |-> <<>>, called |-> <<>>,
                  errors |-> 0 ]
    IN  IF h = "eventHandler"
        THEN IF HasListeners(s, EventNameOf(frame))
             THEN CHOOSE done \in
                      { [ idle EXCEPT
                            !.invoked = r.invoked,
                            !.sess = r.sess, !.out = r.out,
                            !.trace = r.trace,
                            !.called = r.called, !.errors = r.errors,
                            !.emits = IF r.errors > 0 THEN {"error"}
                                      ELSE {} ] :
                        r \in { forEachListener(
                                    s, EventNameOf(frame),
                                    s.eventListeners[EventNameOf(frame)]) } } :
                    TRUE
             ELSE [idle EXCEPT !.emits = {"event"}]
        ELSE IF h = "commandResponse"
        THEN [idle EXCEPT !.emits = {"commandResponse"}]
        ELSE IF h = "error"
        THEN [idle EXCEPT !.emits = {"clientError"}]
        ELSE [idle EXCEPT !.ret = "undefined"]

(* ----------------------------- AppSession ----------------------------- *)
\* A faulty variant of cancel that only detaches the error listeners
cancelKeepsResponser(s, ids) == s

\* The cancel closure of AppSession.command / commandLegacy, for each of
\* ids: session.cancelCommandRequest(requestId); errorEventPromise.cancel()
\* is the listening flag, cleared by the callers below.
RECURSIVE cancel(_, _)
cancel(s, ids) ==
    IF ids = {} THEN s
    ELSE LET i == CHOOSE x \in ids : TRUE
         IN  cancel(cancelCommandRequest(s, i), ids \ {i})

\* Promise.race([errorEventPromise, callbackPromise]).finally(cancel): the
\* awaited commands in ids settle with (outcome, why); cancel runs before
\* the returned promise settles.  byEvent: the error listener of p-event
\* fired, which also clears p-timeout's timer.
SettleAwaited(ap, ids, outcome, why, byEvent) ==
    [ i \in Ids |->
        IF i \in ids
        THEN [ ap[i] EXCEPT !.state = outcome, !.why = why,
                            !.listening = FALSE,
                            !.timer = IF byEvent /\ @ = "armed"
                                      THEN "cleared" ELSE @ ]
        ELSE ap[i] ]

\* The callback AppSession.command passes to sendCommand: resolve(event), or
\* reject(new Error(event.body.statusMessage))
Delivered(ap, ids, frame) ==
    [ i \in Ids |->
        IF i \in ids /\ ap[i].kind = "command"
        THEN IF ap[i].state = "resolved"
             THEN [ap[i] EXCEPT !.delivered = frame, !.value = frame]
             ELSE [ap[i] EXCEPT !.delivered = frame,
                                !.message = frame.body.statusMessage]
        ELSE ap[i] ]

\* A faulty variant of Listening: one emitter shared by all sessions
ListeningAnywhere(ap) == {i \in Ids : ap[i].listening}

\* The awaited commands whose error listeners are attached to this session:
\* pEvent(this.session, [], { rejectionEvents: ['error', 'clientError'] })
Listening(ap) == {i \in Ids : ap[i].listening /\ ap[i].on = "this"}
Pending(ap) == {i \in Ids : ap[i].state = "pending"}

(* ----------------------- ServerSession: inbound ----------------------- *)
\* A faulty variant of SocketOpen: a closed socket goes on delivering
SocketNeverCloses(s) == TRUE

\* The socket emits 'message' only while it is open; after 'close' the
\* listener of the Session constructor is not called again
SocketOpen(s) == s.socket = "open"

\* The 'message' listener of the server's socket, for the next message of
\* toServer: decrypt, parse, emit 'message', dispatch; then the microtasks of
\* the awaited commands that the dispatch settled.
ServerReceive ==
    /\ SocketOpen(session)
    /\ sRead < Len(toServer)
    /\ sRead' = sRead + 1
    /\ \E dec \in {Decode(session, toServer[sRead + 1])} :
       LET data == toServer[sRead + 1]
           s0 == [session EXCEPT !.encrypted = dec.encrypted,
                                 !.encryption = dec.encryption]
       IN  IF ParseThrows(dec.text)
           THEN \* the try block throws: emit 'error' and return
                /\ sObs' = [ NoObs EXCEPT !.wire = data, !.errors = 1,
                                          !.deciphered = dec.deciphered,
                                          !.emits = {"error"} ]
                /\ session' = cancel(s0, Listening(app) \cap Pending(app))
                /\ app' = SettleAwaited(app, Listening(app) \cap Pending(app),
                                        "rejected", "error", TRUE)
                /\ UNCHANGED << callbacks, toClient >>
           ELSE
           LET frame == dec.text.msg
               hasResp == MapHas(s0.responserMap, frame.requestId)
               hasHand == MapHas(s0.handlerMap, frame.purpose)
           IN
           \E r \in { IF hasResp
                      THEN RunServerResponser(
                               s0, s0.responserMap[frame.requestId], frame)
                      ELSE [ ret |-> "none", sess |-> s0, called |-> "none",
                             settle |-> "none", emits |-> {} ] } :
           \E h \in { IF hasHand
                      THEN RunServerHandler(
                               r.sess, s0.handlerMap[frame.purpose], frame)
                      ELSE [ ret |-> "none", emits |-> {}, invoked |-> {},
                             sess |-> r.sess, out |-> <<>>, trace |-> <<>>,
                             called |-> <<>>, errors |-> 0 ] } :
           LET plan == DispatchPlan(hasResp, r.ret, hasHand, h.ret)
               errors == (IF r.ret = "throw" THEN 1 ELSE 0)
                         + (IF plan.handler /\ h.ret = "throw" THEN 1 ELSE 0)
                         + (IF plan.handler THEN h.errors ELSE 0)
               sh == IF plan.handler THEN h.sess ELSE r.sess
               sent == IF plan.handler THEN h.out ELSE <<>>
               emits == {"message"} \cup r.emits
                        \cup (IF plan.handler THEN h.emits ELSE {})
                        \cup (IF plan.customFrame THEN {"customFrame"} ELSE {})
                        \cup (IF errors > 0 THEN {"error"} ELSE {})
               s1 == IF plan.deleteResponser
                     THEN clearResponser(sh, frame.requestId) ELSE sh
               \* the awaited commands rejected by 'error' / 'clientError'
               failed == IF {"error", "clientError"} \cap emits # {}
                         THEN Listening(app) \cap Pending(app) ELSE {}
               \* the awaited command settled by its own response
               answered == IF r.settle # "none"
                              /\ app[frame.requestId].state = "pending"
                           THEN {frame.requestId} ELSE {}
           IN  /\ Len(toClient) + Len(sent) <= MaxMsgs
               /\ toClient' = toClient \o sent
               /\ sObs' = [ NoObs EXCEPT
                            !.wire = data, !.deciphered = dec.deciphered,
                            !.parsed = TRUE, !.frame = frame, !.message = 1,
                            !.order = DispatchOrder(plan),
                            !.trace = IF plan.handler THEN h.trace ELSE <<>>,
                            !.hasResponser = hasResp,
                            !.responser = IF plan.responser THEN 1 ELSE 0,
                            !.respRet = r.ret,
                            !.hasHandler = hasHand,
                            !.handler = IF plan.handler THEN 1 ELSE 0,
                            !.handRet = IF plan.handler THEN h.ret ELSE "none",
                            !.customFrame = IF plan.customFrame THEN 1 ELSE 0,
                            !.errors = errors, !.emits = emits,
                            !.clientError =
                               IF plan.handler /\ "clientError" \in h.emits
                               THEN ClientError(frame) ELSE <<>>,
                            !.chatFrame =
                               IF hasResp /\ r.called = "user"
                                  /\ frame.purpose = "chat"
                               THEN ChatFrame(frame) ELSE <<>>,
                            !.eventName =
                               IF plan.handler
                                  /\ s0.handlerMap[frame.purpose]
                                        = "eventHandler"
                               THEN EventNameOf(frame) ELSE Absent,
                            !.invoked =
                               IF plan.handler THEN h.invoked ELSE {},
                            !.cbFrame =
                               IF hasResp /\ r.called = "user"
                                  /\ frame.purpose = "data"
                               THEN DataFrame(frame)
                               ELSE IF hasResp /\ r.called = "user"
                                  /\ frame.purpose = "action:agent"
                               THEN AgentActionResponseFrame(frame)
                               ELSE <<>> ]
               /\ session' = cancel(s1, failed \cup answered)
               /\ app' = SettleAwaited(
                             Delivered(SettleAwaited(app, answered, r.settle,
                                                     "response", FALSE),
                                       answered, frame),
                             failed \ answered, "rejected",
                             IF "clientError" \in emits THEN "clientError"
                             ELSE "error", TRUE)
               /\ callbacks' =
                     IF r.called \in {"user", "app"}
                     THEN [callbacks EXCEPT ![frame.requestId] =
                               Append(@, frame.requestId)]
                     ELSE IF plan.handler
                     THEN \* the listeners of once, logged under their number
                          [ k \in Ids |->
                              callbacks[k]
                                \o SelectSeq(h.called, LAMBDA x : x = k) ]
                     ELSE callbacks
    /\ UNCHANGED << nextId, nextObj, toServer, cRead, client, cObs, op,
                    heard, server >>

(* ------------------------------ WSClient ------------------------------ *)
\* WSClient.sendEvent: eventName goes to the header from V1_1_0 on, to the
\* body before
sendEvent(c, eventName, body) ==
    IF c.version >= V1_1_0
    THEN sendMessage(c, Message(c.version, "event", body, Sentinel, eventName))
    ELSE sendFrame(c, "event", [body EXCEPT !.eventName = eventName], Sentinel)

\* Map.get(eventName) of eventListenMap: undefined is falsy
IsEventListening(c, eventName) ==
    MapHas(c.eventListenMap, eventName) /\ c.eventListenMap[eventName]

\* WSClient.publishEvent: the messages it sends
publishEvent(c, eventName, body) ==
    IF IsEventListening(c, eventName)
    THEN LET r == sendEvent(c, eventName, body)
         IN  [sess |-> r.sess, out |-> <<r.data>>]
    ELSE [sess |-> c, out |-> <<>>]

\* WSClient.respondCommand
respondCommand(c, requestId, body) ==
    sendFrame(c, "commandResponse", body, requestId)

\* ClientEncryption.completeKeyExchange: throws on a malformed key or an
\* unknown mode
ClientCanComplete(mode, serverPubKeyText) ==
    ValidPubKeyText(serverPubKeyText) /\ mode \in Modes
clientCompleteKeyExchange(e, mode, serverPubKeyText, saltText) ==
    initializeCipher(e, mode,
                     computeSecret(e.priv, asNodejsPubKey(serverPubKeyText)),
                     saltText - SaltBase)

ClientPriv == 5
ServerPriv == 3

\* WSClient.handleKeyExchange: a new ClientEncryption, key exchange completed
handleKeyExchange(obj, mode, serverPubKeyText, saltText) ==
    clientCompleteKeyExchange(NewEncryption(obj, ClientPriv, 0), mode,
                              serverPubKeyText, saltText)

EnableEncryptionPrefix == <<W_enableencryption, SP>>

\* What a handler of the client did: the client afterwards, the messages it
\* sent, whether it threw, the events it emitted, and what a call of
\* handleEncryptionHandshake by a listener returned.
ClientDid(c, out, threw, emits) ==
    [ sess |-> c, out |-> out, threw |-> threw, emits |-> emits,
      publish |-> "none", handshake |-> "none", ret |-> "undefined" ]

\* WSClient.handleEncryptionHandshake(requestId, commandLine); handled is its
\* return value
handleEncryptionHandshake(c, obj, requestId, commandLine) ==
    IF StartsWith(commandLine, EnableEncryptionPrefix)
    THEN LET args == Split(commandLine)
             mode == IF Len(args) >= 4 THEN args[4][1] ELSE M_cfb8
             ok == /\ Len(args) >= 3
                   /\ Len(args[2]) = 1 /\ JSONparseOk(args[2][1])
                   /\ Len(args[3]) = 1 /\ JSONparseOk(args[3][1])
                   /\ ClientCanComplete(mode, JSONparse(args[2][1]))
         IN  IF ~ok
             THEN [ handled |-> FALSE,
                    did |-> ClientDid(c, <<>>, TRUE, {}) ]
             ELSE LET e == handleKeyExchange(obj, mode, JSONparse(args[2][1]),
                                             JSONparse(args[3][1]))
                      r == respondCommand(c, requestId,
                               LegacyEncryptResponseBody(
                                   asOpenSSLPubKey(PubKeyOf(e.priv))))
                  IN  [ handled |-> TRUE,
                        did |-> ClientDid(setEncryption(r.sess, e), <<r.data>>,
                                          FALSE, {"encryptionEnabled"}) ]
    ELSE [handled |-> FALSE, did |-> ClientDid(c, <<>>, FALSE, {})]

\* What the application's listeners do when the client emits an event
SubscriptionBehaviours == {"none", "publish", "throw"}
CommandBehaviours == {"none", "respond", "respondError", "handshake"}
EncryptRequestBehaviours == {"none", "cancel"}
DataBehaviours == {"none", "respondData"}
AgentActionBehaviours == {"none", "respondBoth", "respondAction"}
\* The data types requested by the tests and the purposes `data:${dataType}`
DataTypes == {"block", "item"}
DataPurpose(dataType) == "data:" \o dataType
DataPurposes == {DataPurpose(t) : t \in DataTypes}
Behaviours(purpose) ==
    IF purpose \in {"subscribe", "unsubscribe"} THEN SubscriptionBehaviours
    ELSE IF purpose = "commandRequest" THEN CommandBehaviours
    ELSE IF purpose = "ws:encrypt" THEN EncryptRequestBehaviours
    ELSE IF purpose \in DataPurposes THEN DataBehaviours
    ELSE IF purpose = "action:agent" THEN AgentActionBehaviours
    ELSE {"none"}

\* A 'subscribe' / 'unsubscribe' listener of the application running while
\* the client is c: it may call publishEvent for the event, or throw
RunSubscriptionListener(c, eventName, beh) ==
    IF beh = "publish"
    THEN LET r == publishEvent(c, eventName, NoBody)
         IN  [ ClientDid(r.sess, r.out, FALSE, {}) EXCEPT
                 !.publish = IF r.out = <<>> THEN "dropped" ELSE "sent" ]
    ELSE ClientDid(c, <<>>, beh = "throw", {})

\* WSClient constructor: the Subscribe (gate = TRUE, event = "subscribe") and
\* Unsubscribe (gate = FALSE, event = "unsubscribe") handlers: emit the event,
\* then set eventListenMap.  A throwing listener skips the set.
SubscribeHandler(c, frame, beh, gate, event) ==
    LET eventName == frame.body.eventName
    IN  IF IsEventListening(c, eventName) = gate
        THEN ClientDid(c, <<>>, FALSE, {})
        ELSE LET l == RunSubscriptionListener(c, eventName, beh)
             IN  [ l EXCEPT
                     !.emits = {event},
                     !.sess = IF l.threw THEN l.sess
                              ELSE [l.sess EXCEPT !.eventListenMap =
                                       MapSet(@, eventName, gate)] ]

\* 'Who are you?'
W_who == 6
ResponseBodies == [respond |-> StatusBody(Zero),
                   respondError |-> ErrorBody(Num(1, 0), W_who)]

\* WSClient constructor: the Command handler, with a 'command' listener that
\* ignores the command, responds, or first tries the handshake helper
CommandHandler(c, obj, frame, beh) ==
    IF frame.body.commandLine # <<>>
    THEN IF beh = "none" THEN ClientDid(c, <<>>, FALSE, {"command"})
         ELSE IF beh = "handshake"
         THEN LET hs == handleEncryptionHandshake(c, obj, frame.requestId,
                                                  frame.body.commandLine)
              IN  IF hs.handled \/ hs.did.threw
                  THEN [ hs.did EXCEPT
                           !.emits = @ \cup {"command"},
                           !.handshake = IF hs.did.threw THEN "throw"
                                         ELSE "true" ]
                  ELSE LET r == respondCommand(c, frame.requestId,
                                               ResponseBodies.respond)
                       IN  [ ClientDid(r.sess, <<r.data>>, FALSE,
                                       {"command"})
                               EXCEPT !.handshake = "false" ]
         ELSE LET r == respondCommand(c, frame.requestId, ResponseBodies[beh])
              IN  ClientDid(r.sess, <<r.data>>, FALSE, {"command"})
    ELSE ClientDid(c, <<>>, FALSE, {"commandLegacy"})

\* WSClient.sendEncryptResponse
sendEncryptResponse(c, requestId, publicKey) ==
    sendFrame(c, "ws:encrypt", EncryptResponseBody(publicKey), requestId)

\* A faulty variant of CancelledDuringEvent: cancel() has no effect
CancelIgnored(beh) == FALSE

\* Whether a listener of 'encryptRequest' called event.cancel()
CancelledDuringEvent(beh) == beh = "cancel"

\* WSClient constructor: the EncryptConnection handler
EncryptConnectionHandler(c, obj, frame, beh) ==
    LET event == [NoEncryptRequest EXCEPT !.emitted = TRUE]
    IN  IF CancelledDuringEvent(beh)
        THEN ClientDid([c EXCEPT !.encryptRequest =
                                    [event EXCEPT !.cancelled = TRUE]],
                       <<>>, FALSE, {"encryptRequest"})
        ELSE IF ~ClientCanComplete(frame.body.mode, frame.body.publicKey)
        THEN ClientDid([c EXCEPT !.encryptRequest = event], <<>>, TRUE,
                       {"encryptRequest"})
        ELSE LET e == handleKeyExchange(obj, frame.body.mode,
                                        frame.body.publicKey, frame.body.salt)
                 r == sendEncryptResponse(c, frame.requestId,
                                          asOpenSSLPubKey(PubKeyOf(e.priv)))
             IN  ClientDid([ setEncryption(r.sess, e) EXCEPT
                               !.encryptRequest =
                                  [event EXCEPT !.completed = TRUE] ],
                           <<r.data>>, FALSE,
                           {"encryptRequest", "encryptionEnabled"})

\* The cancel closure of an EncryptRequest event
cancelEncryptRequest(c) ==
    IF c.encryptRequest.completed
    THEN [sess |-> c, threw |-> TRUE]
    ELSE [sess |-> [c EXCEPT !.encryptRequest.cancelled = TRUE],
          threw |-> FALSE]

\* WSClient.sendDataResponse
sendDataResponse(c, requestId, dataType, type, body) ==
    sendFrameWith(c, "data", body, requestId,
                  [dataType |-> dataType, type |-> type])

\* WSClient.respondAgentAction
respondAgentAction(c, requestId, action, actionName, body) ==
    sendFrameWith(c, "action:agent", body, requestId,
                  [action |-> action, actionName |-> actionName])

\* WSClient.setDataResponser: the handler it installs for `data:${dataType}`,
\* with a responser that ignores the request or calls frame.respond(body);
\* the handler returns true
DataHandler(c, frame, beh, dataType) ==
    IF beh = "respondData"
    THEN LET r == sendDataResponse(c, frame.requestId, dataType, 0,
                                   DataBody(W_there))
         IN  [ClientDid(r.sess, <<r.data>>, FALSE, {}) EXCEPT !.ret = "true"]
    ELSE [ClientDid(c, <<>>, FALSE, {}) EXCEPT !.ret = "true"]

Inspect == 8

\* WSClient constructor: the AgentAction handler, with an 'agentAction'
\* listener that ignores the request, calls respondCommand and then
\* respondAgentAction, or calls respondAgentAction alone
AgentActionHandler(c, frame, beh) ==
    LET r1 == IF beh = "respondBoth"
              THEN respondCommand(c, frame.requestId, DataBody(W_hi))
              ELSE [sess |-> c, data |-> <<>>]
        r2 == respondAgentAction(r1.sess, frame.requestId, Inspect,
                                 "inspect", DataBody(W_there))
    IN  IF beh = "none" THEN ClientDid(c, <<>>, FALSE, {"agentAction"})
        ELSE ClientDid(r2.sess,
                       (IF beh = "respondBoth" THEN <<r1.data>> ELSE <<>>)
                          \o <<r2.data>>,
                       FALSE, {"agentAction"})

\* The purpose handlers installed by the WSClient constructor, which return
\* undefined, and those of setDataResponser, which return true
RunClientHandler(c, obj, h, frame, beh) ==
    IF h = "subscribe" THEN SubscribeHandler(c, frame, beh, TRUE, "subscribe")
    ELSE IF h = "unsubscribe"
    THEN SubscribeHandler(c, frame, beh, FALSE, "unsubscribe")
    ELSE IF h = "commandRequest" THEN CommandHandler(c, obj, frame, beh)
    ELSE IF h = "ws:encrypt" THEN EncryptConnectionHandler(c, obj, frame, beh)
    ELSE IF h = "action:agent" THEN AgentActionHandler(c, frame, beh)
    ELSE IF h \in DataPurposes
    THEN DataHandler(c, frame, beh,
                     CHOOSE t \in DataTypes : DataPurpose(t) = h)
    ELSE ClientDid(c, <<>>, FALSE, {h})

\* The subscription frames the client has received so far
Heard(h, frame) ==
    IF frame.purpose = "subscribe" THEN h \cup {frame.body.eventName}
    ELSE IF frame.purpose = "unsubscribe" THEN h \ {frame.body.eventName}
    ELSE h

\* The 'message' listener of the client's socket, for the next message of
\* toClient, with the application's listeners behaving as beh
ClientReceive(beh) ==
    /\ cRead < Len(toClient)
    /\ cRead' = cRead + 1
    /\ LET data == toClient[cRead + 1]
           dec == Decode(client, data)
           c0 == [client EXCEPT !.encrypted = dec.encrypted,
                                !.encryption = dec.encryption]
       IN  IF ParseThrows(dec.text)
           THEN /\ beh = "none"
                /\ cObs' = [ NoObs EXCEPT !.wire = data, !.errors = 1,
                                          !.deciphered = dec.deciphered,
                                          !.emits = {"error"} ]
                /\ client' = c0
                /\ UNCHANGED << toServer, heard, nextObj >>
           ELSE
           LET frame == dec.text.msg
               hasResp == MapHas(c0.responserMap, frame.requestId)
               hasHand == MapHas(c0.handlerMap, frame.purpose)
               h == IF hasHand
                    THEN RunClientHandler(c0, nextObj,
                             c0.handlerMap[frame.purpose], frame, beh)
                    ELSE ClientDid(c0, <<>>, FALSE, {})
               hRet == IF ~hasHand THEN "none"
                       ELSE IF h.threw THEN "throw" ELSE h.ret
               plan == DispatchPlan(hasResp, "none", hasHand, hRet)
               errors == IF plan.handler /\ h.threw THEN 1 ELSE 0
           IN  /\ beh \in Behaviours(frame.purpose)
               /\ Len(toServer) + Len(h.out) <= MaxMsgs
               /\ cObs' = [ NoObs EXCEPT
                            !.wire = data, !.deciphered = dec.deciphered,
                            !.parsed = TRUE, !.frame = frame, !.message = 1,
                            !.order = DispatchOrder(plan),
                            !.hasResponser = hasResp,
                            !.hasHandler = hasHand,
                            !.handler = IF plan.handler THEN 1 ELSE 0,
                            !.handRet = hRet,
                            !.customFrame = IF plan.customFrame THEN 1 ELSE 0,
                            !.errors = errors,
                            !.out = h.out, !.encBefore = c0.encryption,
                            !.beh = beh, !.handshake = h.handshake,
                            !.emits = {"message"} \cup h.emits
                                \cup (IF plan.customFrame
                                      THEN {"customFrame"} ELSE {})
                                \cup (IF errors > 0 THEN {"error"} ELSE {}),
                            !.publish = h.publish,
                            !.pubName = IF h.publish = "none" THEN Absent
                                        ELSE frame.body.eventName,
                            !.pubHeard = h.publish # "none"
                                /\ frame.body.eventName \in Heard(heard, frame) ]
               /\ client' = IF plan.deleteHandler
                             THEN clearHandler(h.sess, frame.purpose)
                             ELSE h.sess
               /\ toServer' = toServer \o h.out
               /\ heard' = Heard(heard, frame)
               /\ nextObj' = IF "encryptionEnabled" \in h.emits
                             THEN nextObj + 1 ELSE nextObj
    /\ UNCHANGED << nextId, toClient, sRead, session, sObs, callbacks, app,
                    op, server >>

\* The application calls cancel() on the EncryptRequest event it kept, after
\* the 'encryptRequest' event
CancelEncryptRequest ==
    /\ client.encryptRequest.emitted
    /\ LET r == cancelEncryptRequest(client)
       IN  /\ client' = r.sess
           /\ op' = [ NoOp EXCEPT !.name = "encryptRequest.cancel",
                                  !.ret = IF r.threw THEN "throw"
                                          ELSE "undefined" ]
    /\ UNCHANGED << nextId, nextObj, toClient, toServer, cRead, sRead, session,
                    sObs, cObs, callbacks, app, heard, server >>

(* ------------------- ServerSession: subscriptions --------------------- *)
ServerCall(name, r, arg, before) ==
    /\ Len(toClient) + Len(r.out) <= MaxMsgs
    /\ session' = r.sess
    /\ toClient' = toClient \o r.out
    /\ op' = [ NoOp EXCEPT !.name = name, !.out = Sent(toClient, toClient'),
                           !.arg = arg, !.before = before,
                           !.after = ListenersOf(r.sess, arg[1]) ]
    /\ UNCHANGED << nextId, nextObj, toServer, cRead, sRead, client, sObs,
                    cObs, callbacks, app, heard, server >>

Subscribe(eventName, listener) ==
    ServerCall("subscribe", subscribe(session, eventName, listener),
               <<eventName>>, ListenersOf(session, eventName))

Unsubscribe(eventName, listener) ==
    ServerCall("unsubscribe", unsubscribe(session, eventName, listener),
               <<eventName>>, ListenersOf(session, eventName))

(* ---------------------- WSClient: outbound calls ---------------------- *)
\* The application calls client.publishEvent outside any listener
PublishEvent(eventName) ==
    LET r == publishEvent(client, eventName, NoBody)
    IN  /\ Len(toServer) + Len(r.out) <= MaxMsgs
        /\ client' = r.sess
        /\ toServer' = toServer \o r.out
        /\ cObs' = [ NoObs EXCEPT
                       !.publish = IF r.out = <<>> THEN "dropped" ELSE "sent",
                       !.pubName = eventName,
                       !.pubHeard = eventName \in heard ]
        /\ UNCHANGED << nextId, nextObj, toClient, cRead, sRead, session,
                        sObs, callbacks, app, op, heard, server >>

\* The peer sends a frame of its own making: WSClient.sendFrame / sendError
ClientSendFrame(purpose, requestId, body) ==
    LET r == sendFrame(client, purpose, body, requestId)
    IN  /\ CanSend(toServer)
        /\ client' = r.sess
        /\ toServer' = Append(toServer, r.data)
        /\ UNCHANGED << nextId, nextObj, toClient, cRead, sRead, session,
                        sObs, cObs, callbacks, app, op, heard, server >>

\* The peer writes bytes that are not JSON to its socket
ClientSendMalformed ==
    /\ CanSend(toServer)
    /\ toServer' = Append(toServer, Malformed)
    /\ UNCHANGED << nextId, nextObj, toClient, cRead, sRead, session, client,
                    sObs, cObs, callbacks, app, op, heard, server >>

(* ------------------ ServerSession: chat subscriptions ----------------- *)
\* ServerSession.subscribeChat(sender, receiver, message, callback) with a
\* callback
subscribeChat(s, requestId, sender, receiver, message) ==
    LET s1 == setResponser(s, requestId,
                  Responder("chat", "user", NoEncryption, Absent, "none")).sess
        s2 == [s1 EXCEPT !.chatResponsers = @ \cup {requestId}]
        r == sendFrame(s2, "chat:subscribe",
                       ChatSubscribeBody(sender, receiver, message), requestId)
    IN  [sess |-> r.sess, out |-> <<r.data>>]

\* ServerSession.unsubscribeChatRaw(requestId?)
unsubscribeChatRaw(s, requestId) ==
    sendFrame(s, "chat:unsubscribe", ChatUnsubscribeBody(requestId), Sentinel)

\* A faulty variant of unsubscribeChat that leaves the responder registered
unsubscribeChatKeepsResponser(s, requestId) ==
    IF requestId \in s.chatResponsers
    THEN LET r == unsubscribeChatRaw(
                      [s EXCEPT !.chatResponsers = @ \ {requestId}], requestId)
         IN  [sess |-> r.sess, out |-> <<r.data>>]
    ELSE [sess |-> s, out |-> <<>>]

\* ServerSession.unsubscribeChat(requestId)
unsubscribeChat(s, requestId) ==
    IF requestId \in s.chatResponsers
    THEN LET r == unsubscribeChatRaw(
                      [s EXCEPT !.chatResponsers = @ \ {requestId}], requestId)
         IN  [sess |-> clearResponser(r.sess, requestId), out |-> <<r.data>>]
    ELSE [sess |-> s, out |-> <<>>]

\* ServerSession.unsubscribeChatAll()
unsubscribeChatAll(s) ==
    LET r == unsubscribeChatRaw(s, Absent)
    IN  [ sess |-> [ r.sess EXCEPT
                       !.responserMap =
                          [k \in DOMAIN @ \ s.chatResponsers |-> @[k]],
                       !.chatResponsers = {} ],
          out |-> <<r.data>> ]

\* A call of a chat subscription method
ChatCall(name, requestId, r, arg) ==
    /\ Len(toClient) + Len(r.out) <= MaxMsgs
    /\ session' = r.sess
    /\ toClient' = toClient \o r.out
    /\ op' = [ NoOp EXCEPT !.name = name, !.id = requestId, !.arg = arg,
                           !.out = Sent(toClient, toClient') ]
    /\ UNCHANGED << nextObj, toServer, cRead, sRead, client, sObs, cObs,
                    callbacks, app, heard, server >>

SubscribeChat(sender, receiver, message) ==
    /\ nextId <= MaxId
    /\ CanSetResponser(session, randomUUID)
    /\ ChatCall("subscribeChat", randomUUID,
                subscribeChat(session, randomUUID, sender, receiver, message),
                <<sender, receiver, message>>)
    /\ nextId' = nextId + 1

UnsubscribeChat(requestId) ==
    /\ ChatCall("unsubscribeChat", requestId,
                unsubscribeChat(session, requestId), <<requestId>>)
    /\ UNCHANGED nextId

UnsubscribeChatAll ==
    /\ ChatCall("unsubscribeChatAll", Sentinel, unsubscribeChatAll(session),
                <<>>)
    /\ UNCHANGED nextId

(* --------------------- ServerSession: encryption ---------------------- *)
\* A faulty variant of sendEncryptionRequest that leaves the salt out
sendEncryptionRequestNoSalt(s, requestId, mode, publicKey, salt) ==
    sendFrame(s, "ws:encrypt", EncryptRequestBody(mode, publicKey, Absent),
              requestId)

\* ServerSession.sendEncryptionRequest
sendEncryptionRequest(s, requestId, mode, publicKey, salt) ==
    sendFrame(s, "ws:encrypt", EncryptRequestBody(mode, publicKey, salt),
              requestId)

\* ServerEncryption.beginKeyExchange
beginKeyExchange(e) ==
    [ publicKey |-> asOpenSSLPubKey(PubKeyOf(e.priv)),
      salt |-> SaltBase + e.salt ]

\* The legacy handshake command
HandshakeCommand(params, mode) ==
    ArrCmd(<< <<W_enableencryption>>, <<JSONstringify(params.publicKey)>>,
              <<JSONstringify(params.salt)>>, <<mode>> >>)

\* A faulty variant of enableEncryptionRefused: a pending handshake is not
\* checked
enableEncryptionRefusedActiveOnly(s) == s.encryption.active

\* ServerSession.enableEncryption: if (this.exchangingKey || this.encryption)
enableEncryptionRefused(s) == s.exchangingKey \/ s.encryption.active

\* ServerSession.enableEncryption(arg1, arg2) once the guard has passed: the
\* session afterwards and the message sent.  modeArg is Absent when arg1 is
\* not a string.
enableEncryption(s, requestId, obj, salt, modeArg, callback) ==
    LET encryption == NewEncryption(obj, ServerPriv, salt)
        keyExchangeParams == beginKeyExchange(encryption)
        mode == IF modeArg = Absent THEN M_cfb8 ELSE modeArg
        s1 == [s EXCEPT !.exchangingKey = TRUE]
    IN  IF s.version >= V1_0_0
        THEN LET r == sendEncryptionRequest(s1, requestId, mode,
                          keyExchangeParams.publicKey, keyExchangeParams.salt)
             IN  [ data |-> r.data,
                   sess |-> setResponser(r.sess, requestId,
                                Responder("encrypt", "enableEncryption",
                                          encryption, mode, callback)).sess ]
        ELSE sendCommand(s1, requestId,
                         HandshakeCommand(keyExchangeParams, mode),
                         "enableEncryption", encryption, mode, callback)

\* A call of enableEncryption; name is the method called, callback the
\* callback it passes on
EnableEncryptionCall(name, modeArg, callback) ==
    IF enableEncryptionRefused(session)
    THEN /\ op' = [ NoOp EXCEPT !.name = name, !.ret = "false",
                                !.arg = <<modeArg>>,
                                !.before = session, !.after = session ]
         /\ UNCHANGED << nextId, nextObj, toClient, toServer, cRead, sRead,
                         session, client, sObs, cObs, callbacks, app, heard,
                         server >>
    ELSE /\ nextId <= MaxId
         /\ CanSend(toClient)
         /\ CanSetResponser(session, randomUUID)
         /\ \E salt \in 0 .. MaxSalt :
              LET r == enableEncryption(session, randomUUID, nextObj, salt,
                                        modeArg, callback)
              IN  /\ session' = r.sess
                  /\ toClient' = Append(toClient, r.data)
         /\ op' = [ NoOp EXCEPT !.name = name, !.id = randomUUID,
                                !.ret = "true", !.arg = <<modeArg>>,
                                !.before = session,
                                !.after = session',
                                !.out = Sent(toClient, toClient') ]
         /\ app' = IF callback = "app"
                   THEN [app EXCEPT ![randomUUID] =
                           [NoAwait EXCEPT !.kind = "encrypt",
                                           !.state = "pending"]]
                   ELSE app
         /\ nextId' = nextId + 1
         /\ nextObj' = nextObj + 1
         /\ UNCHANGED << toServer, cRead, sRead, client, sObs, cObs,
                         callbacks, heard, server >>

EnableEncryption(modeArg, callback) ==
    EnableEncryptionCall("enableEncryption", modeArg, callback)

\* AppSession.enableEncryption: resolve(true) is the callback, resolve(false)
\* the refusal
AppEnableEncryption ==
    EnableEncryptionCall("app.enableEncryption", Absent, "app")

\* The application starts a handshake itself, with sendEncryptionRequest or
\* with the legacy command sent without a callback
RawEncryptionRequest(mode) ==
    /\ nextId <= MaxId
    /\ CanSend(toClient)
    /\ \E salt \in 0 .. MaxSalt :
         LET params == beginKeyExchange(NewEncryption(nextObj, ServerPriv, salt))
             r == IF session.version >= V1_0_0
                  THEN sendEncryptionRequest(session, randomUUID, mode,
                                             params.publicKey, params.salt)
                  ELSE sendCommand(session, randomUUID,
                                   HandshakeCommand(params, mode), "none",
                                   NoEncryption, Absent, "none")
         IN  /\ session' = r.sess
             /\ toClient' = Append(toClient, r.data)
    /\ op' = [ NoOp EXCEPT !.name = "sendEncryptionRequest", !.id = randomUUID,
                           !.out = Sent(toClient, toClient') ]
    /\ nextId' = nextId + 1
    /\ nextObj' = nextObj + 1
    /\ UNCHANGED << toServer, cRead, sRead, client, sObs, cObs, callbacks, app,
                    heard, server >>

(* ------------------------ AppSession: commands ------------------------ *)
\* AppSession.command(commandLine, timeout): p-event listens for 'error' and
\* 'clientError', sendCommand registers the responder
AppCommand(cmd, timeout) ==
    /\ nextId <= MaxId
    /\ CanSend(toClient)
    /\ CanSetResponser(session, randomUUID)
    /\ LET r == sendCommand(session, randomUUID, cmd, "app", NoEncryption,
                            Absent, "none")
       IN  /\ session' = r.sess
           /\ toClient' = Append(toClient, r.data)
    /\ app' = [app EXCEPT ![randomUUID] =
                 [ NoAwait EXCEPT !.kind = "command", !.state = "pending",
                                  !.listening = TRUE,
                                  !.timer = IF timeout THEN "armed"
                                            ELSE "none" ]]
    /\ op' = [ NoOp EXCEPT !.name = "app.command", !.id = randomUUID,
                           !.out = Sent(toClient, toClient') ]
    /\ nextId' = nextId + 1
    /\ UNCHANGED << nextObj, toServer, cRead, sRead, client, sObs, cObs,
                    callbacks, heard, server >>

\* AppSession.command on another session of the same server: its listeners
\* and its responder belong to that session
OtherAppCommand(timeout) ==
    /\ nextId <= MaxId
    /\ app' = [app EXCEPT ![randomUUID] =
                 [ NoAwait EXCEPT !.kind = "command", !.state = "pending",
                                  !.listening = TRUE, !.on = "other",
                                  !.timer = IF timeout THEN "armed"
                                            ELSE "none" ]]
    /\ op' = [NoOp EXCEPT !.name = "other.command", !.id = randomUUID]
    /\ nextId' = nextId + 1
    /\ UNCHANGED << nextObj, toClient, toServer, cRead, sRead, session, client,
                    sObs, cObs, callbacks, heard, server >>

\* racePromise.cancel() while the command is awaited.  Whether p-event's
\* cancel also clears p-timeout's timer depends on the p-event release.
AppCancel(requestId, clearsTimer) ==
    /\ app[requestId].kind = "command"
    /\ app[requestId].state = "pending"
    /\ ~app[requestId].cancelled
    /\ session' = cancel(session, {requestId})
    /\ app' = [app EXCEPT ![requestId] =
                 [ @ EXCEPT !.cancelled = TRUE, !.listening = FALSE,
                            !.timer = IF clearsTimer /\ @ = "armed"
                                      THEN "cleared" ELSE @ ]]
    /\ op' = [NoOp EXCEPT !.name = "app.cancel", !.id = requestId]
    /\ UNCHANGED << nextId, nextObj, toClient, toServer, cRead, sRead, client,
                    sObs, cObs, callbacks, heard, server >>

\* p-timeout's timer of an awaited command fires
TimerFire(requestId) ==
    /\ app[requestId].timer = "armed"
    /\ LET hit == IF app[requestId].state = "pending" THEN {requestId} ELSE {}
       IN  /\ session' = cancel(session, hit)
           /\ app' = [ SettleAwaited(app, hit, "rejected", "timeout", FALSE)
                         EXCEPT ![requestId].timer = "fired" ]
    /\ UNCHANGED << nextId, nextObj, toClient, toServer, cRead, sRead, client,
                    sObs, cObs, callbacks, op, heard, server >>

(* --------------------------- specifications --------------------------- *)
UserCallbacks == {"none", "user", "userThrows"}
PeerPurposes == {"commandResponse", "event"}
AppCommands == {StrCmd(<<W_say, SP, W_hi>>)}

\* Commands with and without callbacks against a peer that answers, stays
\* silent, or sends frames of its own
Next ==
    \/ \E cmd \in Commands, cb \in UserCallbacks : SendCommand(cmd, cb)
    \/ \E requestId \in Ids : CancelCommandRequest(requestId)
    \/ \E beh \in {"none", "respond"} : ClientReceive(beh)
    \/ ServerReceive
    \/ \E purpose \in PeerPurposes, requestId \in Ids :
          ClientSendFrame(purpose, requestId, StatusBody(Zero))

Spec == Init /\ [][Next]_vars

\* Event subscriptions and publishing
NextSub ==
    \/ \E eventName \in EventNames, listener \in Listeners :
          Subscribe(eventName, listener)
    \/ \E eventName \in EventNames, listener \in Listeners :
          Unsubscribe(eventName, listener)
    \/ \E eventName \in EventNames : PublishEvent(eventName)
    \/ \E beh \in SubscriptionBehaviours : ClientReceive(beh)
    \/ ServerReceive

SpecSub == Init /\ [][NextSub]_vars

\* Handshakes started by enableEncryption only, and commands around them
NextEnc ==
    \/ SetVersion(V1_0_0)
    \/ \E modeArg \in {Absent, M_cfb}, callback \in {"none", "user"} :
          EnableEncryption(modeArg, callback)
    \/ AppEnableEncryption
    \/ \E cmd \in AppCommands : SendCommand(cmd, "user")
    \/ \E beh \in {"none", "respond", "handshake"} : ClientReceive(beh)
    \/ ServerReceive

SpecEnc == Init /\ [][NextEnc]_vars

\* As SpecEnc, and the application may also send encryption requests itself
NextEncRaw ==
    \/ NextEnc
    \/ RawEncryptionRequest(M_cfb8)

SpecEncRaw == Init /\ [][NextEncRaw]_vars

\* Awaited commands: responses, errors, timeouts and cancellation
NextApp ==
    \/ \E cmd \in AppCommands, timeout \in BOOLEAN : AppCommand(cmd, timeout)
    \/ \E requestId \in Ids, clearsTimer \in BOOLEAN :
          AppCancel(requestId, clearsTimer)
    \/ \E requestId \in Ids : TimerFire(requestId)
    \/ \E beh \in {"none", "respond", "respondError"} : ClientReceive(beh)
    \/ ServerReceive
    \/ \E purpose \in {"commandResponse", "error"}, requestId \in Ids :
          ClientSendFrame(purpose, requestId, StatusBody(Zero))
    \/ ClientSendMalformed

SpecApp == Init /\ [][NextApp]_vars

(* ------------------------------- claims ------------------------------- *)
Observations == {sObs, cObs}

\* C1 (as stated): the callback of a sendCommand is invoked at most once over
\* the whole session.  Refuted: a callback that throws leaves its responder
\* registered, and a second commandResponse with the id invokes it again.
C1_CallbackAtMostOnce == \A i \in Ids : Len(callbacks[i]) <= 1

\* C2 (as stated): a frame that parses is dispatched on exactly one channel,
\* the responder for its requestId, else the handler for its purpose, else
\* customFrame; no handler runs for a frame that has a responder and no
\* customFrame is emitted for a frame a responder or a handler received.
\* Refuted: a responder or handler that returns undefined passes the frame on.
C2_ExactlyOneChannel ==
    \A o \in Observations :
        o.parsed =>
            /\ o.responser + o.handler + o.customFrame = 1
            /\ o.hasResponser => o.responser = 1
            /\ (~o.hasResponser /\ o.hasHandler) => o.handler = 1

\* The subscription frames for an event name that the server has sent
SubscriptionFrames(eventName) ==
    SelectSeq(toClient, LAMBDA d : d.msg.body.eventName = eventName)

\* C3: subscribe sends one subscribe frame exactly when the listener set of
\* the name goes from empty to non-empty, unsubscribe one unsubscribe frame
\* exactly when it goes from non-empty to empty; so the frames for a name
\* alternate, starting with subscribe, and the last one is a subscribe
\* exactly while the name has listeners.
C3_FramesAtTransitions ==
    /\ op.name = "subscribe" =>
          /\ Len(op.out) = (IF op.before = {} /\ op.after # {} THEN 1 ELSE 0)
          /\ \A k \in 1 .. Len(op.out) :
                /\ op.out[k].msg.purpose = "subscribe"
                /\ op.out[k].msg.body.eventName = op.arg[1]
    /\ op.name = "unsubscribe" =>
          /\ Len(op.out) = (IF op.before # {} /\ op.after = {} THEN 1 ELSE 0)
          /\ \A k \in 1 .. Len(op.out) :
                /\ op.out[k].msg.purpose = "unsubscribe"
                /\ op.out[k].msg.body.eventName = op.arg[1]
    /\ \A n \in EventNames :
          LET fs == SubscriptionFrames(n)
          IN  /\ \A k \in 1 .. Len(fs) :
                    fs[k].msg.purpose =
                        (IF k % 2 = 1 THEN "subscribe" ELSE "unsubscribe")
              /\ (Len(fs) % 2 = 1) <=> (ListenersOf(session, n) # {})

\* subscribe(1, L1), subscribe(1, L2), unsubscribe(1, L1) and unsubscribe(1, L2)
\* have sent one subscribe and one unsubscribe frame
C3_Witness ==
    /\ op.name = "unsubscribe" /\ op.before = {"L2"} /\ op.after = {}
    /\ Len(op.out) = 1
    /\ Len(SubscriptionFrames(op.arg[1])) = 2
    /\ Len(toClient) = 2

\* C4 (as stated): publishEvent(name) sends an event frame if and only if
\* the client has received a subscribe frame for name and no unsubscribe
\* frame for it since, also inside 'subscribe' / 'unsubscribe' listeners and
\* after one has thrown.  Refuted: the gate is set after the listeners ran.
C4_PublishIffSubscribed ==
    cObs.publish # "none" => ((cObs.publish = "sent") <=> cObs.pubHeard)

\* C5 (as stated): once encryption is active on a session of either role, it
\* stays active and no later handshake replaces or re-keys the cipher.
\* Refuted: the client runs the key exchange for every inbound request.
C5_ActiveCipherKept ==
    [][ /\ client.encryption.active =>
              /\ client.encryption'.active
              /\ client.encryption'.obj = client.encryption.obj
        /\ session.encryption.active =>
              /\ session.encryption'.active
              /\ session.encryption'.obj = session.encryption.obj ]_vars

\* C6: enableEncryption returns true exactly when no handshake is pending
\* and encryption is not active; when it returns false it sends nothing,
\* registers no responder and leaves the session as it was.  The promise of
\* AppSession.enableEncryption resolves true exactly when the callback of its
\* handshake has run, and then encryption is active.
C6_EnableEncryptionResult ==
    /\ op.name \in {"enableEncryption", "app.enableEncryption"} =>
          /\ (op.ret = "true") <=>
                (~op.before.exchangingKey /\ ~op.before.encryption.active)
          /\ op.ret \in {"true", "false"}
          /\ op.ret = "false" => (op.out = <<>> /\ op.after = op.before)
          /\ op.ret = "true" =>
                /\ Len(op.out) = 1
                /\ op.after.exchangingKey
                /\ MapHas(op.after.responserMap, op.id)
    /\ \A i \in Ids :
          app[i].kind = "encrypt" =>
              /\ app[i].state \in {"pending", "resolved"}
              /\ (app[i].state = "resolved") <=> (callbacks[i] # <<>>)
              /\ app[i].state = "resolved" => session.encryption.active

\* AppSession.enableEncryption resolved true, and a second call was refused
C6_Witness ==
    /\ op.name = "app.enableEncryption" /\ op.ret = "false"
    /\ \E i \in Ids : app[i].kind = "encrypt" /\ app[i].state = "resolved"

\* The handshake responses of the client: frames that carry its public key
IsHandshakeResponse(d) == d.msg.body.publicKey # Absent

\* C7 (as stated): the client sends its handshake response in plaintext and
\* every frame after it as ciphertext.  Refuted through C5: a client whose
\* encryption is active answers a further request through its cipher.
C7_ResponseInPlaintext ==
    \A k \in 1 .. Len(toServer) :
        IsHandshakeResponse(toServer[k]) => ~toServer[k].cipher

\* C8 (as stated): with encryption on, the receiving side's dispatch sees
\* every frame that was sent, as in a run without encryption.  Refuted: a
\* first ciphertext that happens to start with '{' is parsed as plaintext.
C8_SameFramesAsPlaintext ==
    \A o \in Observations :
        o.wire # Plain(NoMessage) => (o.parsed /\ o.frame = o.wire.msg)

\* C9: an awaited command cancelled while pending has no responder from
\* then on; a commandResponse with its id that arrives later invokes no
\* callback and does not resolve the awaitable.
C9_CancelledStaysSilent ==
    \A i \in Ids :
        app[i].cancelled =>
            /\ ~MapHas(session.responserMap, i)
            /\ callbacks[i] = <<>>
            /\ app[i].state # "resolved"

\* A commandResponse for a cancelled command has been dispatched
C9_Witness ==
    \E i \in Ids :
        /\ app[i].cancelled
        /\ sObs.parsed /\ sObs.frame.purpose = "commandResponse"
        /\ sObs.frame.requestId = i

\* C10: once the awaitable of an awaited command has settled (response,
\* command-level error, session error, clientError, timeout) or has been
\* cancelled, the session has no responder for its requestId.
C10_NoResponderAfterSettle ==
    \A i \in Ids :
        (/\ app[i].kind = "command"
         /\ (app[i].state \in {"resolved", "rejected"} \/ app[i].cancelled))
        => ~MapHas(session.responserMap, i)

\* One awaited command timed out and another was rejected by a clientError
C10_Witness ==
    \E i, j \in Ids :
        /\ app[i].state = "rejected" /\ app[i].why = "timeout"
        /\ app[j].state = "rejected" /\ app[j].why = "clientError"

(* ------------------------- C11: status codes -------------------------- *)
\* statusCode values a peer may send: none, 0, 10001, 2147483648,
\* -2147483648, 4294967296 and -1
StatusCodes ==
    { NoNum, Zero, Num(0, 10001), Num(1, 0), Num(-1, 0), Num(2, 0),
      Num(-1, 2147483647) }

\* Awaited commands answered with every kind of statusCode
NextStatus ==
    \/ \E cmd \in AppCommands : AppCommand(cmd, FALSE)
    \/ ServerReceive
    \/ \E requestId \in Ids, code \in StatusCodes :
          ClientSendFrame("commandResponse", requestId, ErrorBody(code, W_who))

SpecStatus == Init /\ [][NextStatus]_vars

\* Bit 31 of the 32-bit two's complement value of an integer n
Bit31(code) == (code.q % 2) = 1

\* C11: an awaited command answered by a commandResponse rejects, with the
\* message body.statusMessage, if and only if body.statusCode is present and
\* has bit 31 set; otherwise it resolves with the response frame.
C11_RejectIffBit31 ==
    \A i \in Ids :
        (app[i].kind = "command" /\ app[i].why = "response") =>
            /\ app[i].delivered.purpose = "commandResponse"
            /\ app[i].delivered.requestId = i
            /\ (app[i].state = "rejected") <=>
                  /\ app[i].delivered.body.statusCode.present
                  /\ Bit31(app[i].delivered.body.statusCode)
            /\ (app[i].state = "resolved") <=> (app[i].state # "rejected")
            /\ app[i].state = "resolved" => app[i].value = app[i].delivered
            /\ app[i].state = "rejected" =>
                  app[i].message = app[i].delivered.body.statusMessage

\* A response with statusCode 2147483648 rejected the awaited command
C11_Witness ==
    \E i \in Ids :
        /\ app[i].why = "response" /\ app[i].state = "rejected"
        /\ app[i].delivered.body.statusCode = Num(1, 0)
        /\ app[i].message = W_who
(* ------------------------------- C12 ---------------------------------- *)
ErrorBodies == {ErrorBody(Num(0, 10001), W_who), NoBody}

\* Awaited commands on two sessions, and a peer that reports errors
NextErr ==
    \/ \E cmd \in AppCommands : AppCommand(cmd, FALSE)
    \/ OtherAppCommand(FALSE)
    \/ \E requestId \in Ids : AppCancel(requestId, FALSE)
    \/ ServerReceive
    \/ \E requestId \in Ids \cup {Sentinel}, body \in ErrorBodies :
          ClientSendFrame("error", requestId, body)

SpecErr == Init /\ [][NextErr]_vars

\* The awaited commands in flight on this session / on another one
InFlight(ap, on) ==
    { i \in Ids : /\ ap[i].kind = "command" /\ ap[i].on = on
                  /\ ap[i].state = "pending" /\ ~ap[i].cancelled }

\* C12: a received frame of purpose error emits clientError carrying the
\* frame's statusCode, statusMessage and requestId, and rejects every awaited
\* command in flight on the session, whatever its requestId; awaited commands
\* of other sessions keep their state.
C12_ErrorFrameRejectsAll ==
    [][ (sRead' = sRead + 1 /\ sObs'.parsed /\ sObs'.frame.purpose = "error")
        => /\ "clientError" \in sObs'.emits
           /\ sObs'.clientError.statusCode = sObs'.frame.body.statusCode
           /\ sObs'.clientError.statusMessage = sObs'.frame.body.statusMessage
           /\ sObs'.clientError.requestId = sObs'.frame.requestId
           /\ \A i \in InFlight(app, "this") :
                 app'[i].state = "rejected" /\ app'[i].why = "clientError"
           /\ \A i \in Ids : app[i].on = "other" => app'[i] = app[i] ]_vars

\* An error frame of another requestId rejected this session's awaited
\* command while another session's one stayed pending
C12_Witness ==
    /\ sObs.parsed /\ sObs.frame.purpose = "error"
    /\ sObs.clientError # <<>>
    /\ sObs.clientError.statusCode = Num(0, 10001)
    /\ \E i, j \in Ids :
          /\ i # j
          /\ app[i].why = "clientError" /\ app[i].on = "this"
          /\ app[j].on = "other" /\ app[j].state = "pending"
          /\ sObs.frame.requestId # i

(* ------------------------------- C13 ---------------------------------- *)
\* C13: after cancel() on the awaitable of an awaited command, the session
\* has no responder for its requestId and the awaitable has rejected with a
\* cancellation error; it is not pending.
C13_CancelRejects ==
    \A i \in Ids :
        (app[i].kind = "command" /\ app[i].cancelled) =>
            /\ ~MapHas(session.responserMap, i)
            /\ app[i].state = "rejected"
            /\ app[i].why = "cancel"

(* ------------------------------- C14 ---------------------------------- *)
\* Awaited commands started with a timeout
NextTimed ==
    \/ \E cmd \in AppCommands : AppCommand(cmd, TRUE)
    \/ \E requestId \in Ids, clearsTimer \in BOOLEAN :
          AppCancel(requestId, clearsTimer)
    \/ \E requestId \in Ids : TimerFire(requestId)
    \/ \E beh \in {"none", "respond", "respondError"} : ClientReceive(beh)
    \/ ServerReceive
    \/ \E requestId \in Ids :
          ClientSendFrame("error", requestId, StatusBody(Zero))
    \/ ClientSendMalformed

\* An armed timer fires, and a message that has arrived is processed; the
\* peer is free never to read or answer.
SpecTimed ==
    /\ Init /\ [][NextTimed]_vars
    /\ \A requestId \in Ids : WF_vars(TimerFire(requestId))
    /\ WF_vars(ServerReceive)

\* C14: an awaited command started with a timeout eventually settles.
C14_TimedCommandSettles ==
    \A i \in Ids :
        (app[i].kind = "command" /\ app[i].timer # "none")
            ~> (app[i].state \in {"resolved", "rejected"})

(* ------------------------------- C15 ---------------------------------- *)
UserFunctions == {"f", "g"}
UserPurposes == {"error", "custom"}

\* The application registers and clears responders and handlers itself
SessionCall(name, key, fn, r) ==
    /\ session' = r.sess
    /\ op' = [ NoOp EXCEPT !.name = name, !.arg = <<key, fn>>,
                           !.ret = IF r.threw THEN "throw" ELSE "undefined" ]
    /\ UNCHANGED << nextId, nextObj, toClient, toServer, cRead, sRead, client,
                    sObs, cObs, callbacks, app, heard, server >>

SetResponser(requestId, fn) ==
    SessionCall("setResponser", requestId, fn,
                setResponser(session, requestId,
                             Responder("user", fn, NoEncryption, Absent,
                                       "none")))

ClearResponser(requestId) ==
    SessionCall("clearResponser", requestId, "",
                [sess |-> clearResponser(session, requestId), threw |-> FALSE])

SetHandler(purpose, fn) ==
    SessionCall("setHandler", purpose, fn, setHandler(session, purpose, fn))

ClearHandler(purpose) ==
    SessionCall("clearHandler", purpose, "",
                [sess |-> clearHandler(session, purpose), threw |-> FALSE])

NextReg ==
    \/ \E requestId \in Ids, fn \in UserFunctions : SetResponser(requestId, fn)
    \/ \E requestId \in Ids : ClearResponser(requestId)
    \/ \E purpose \in UserPurposes, fn \in UserFunctions :
          SetHandler(purpose, fn)
    \/ \E purpose \in UserPurposes : ClearHandler(purpose)

SpecReg == Init /\ [][NextReg]_vars

\* C15: setResponser on a requestId that has a responder throws and leaves
\* the responder map as it was, and otherwise registers the function;
\* setHandler does the same per purpose.
C15_RegisterOnce ==
    [][ /\ op'.name = "setResponser" =>
             IF MapHas(session.responserMap, op'.arg[1])
             THEN /\ op'.ret = "throw"
                  /\ session'.responserMap = session.responserMap
             ELSE /\ op'.ret = "undefined"
                  /\ MapHas(session'.responserMap, op'.arg[1])
                  /\ session'.responserMap[op'.arg[1]].cb = op'.arg[2]
        /\ op'.name = "setHandler" =>
             IF MapHas(session.handlerMap, op'.arg[1])
             THEN /\ op'.ret = "throw"
                  /\ session'.handlerMap = session.handlerMap
             ELSE /\ op'.ret = "undefined"
                  /\ MapHas(session'.handlerMap, op'.arg[1])
                  /\ session'.handlerMap[op'.arg[1]] = op'.arg[2]
      ]_vars

\* A setResponser with another function on a registered requestId has
\* thrown, on a session whose error purpose has lost and regained a handler
C15_Witness ==
    /\ op.name = "setResponser" /\ op.ret = "throw"
    /\ session.responserMap[op.arg[1]].cb # op.arg[2]
    /\ MapHas(session.handlerMap, "error")
    /\ session.handlerMap["error"] \in UserFunctions

(* ------------------------------- C16 ---------------------------------- *)
\* Handshakes of both dialects in every mode, with a peer that completes
\* them
NextModes ==
    \/ SetVersion(V1_0_0)
    \/ \E modeArg \in {Absent} \cup Modes : EnableEncryption(modeArg, "none")
    \/ \E beh \in {"none", "handshake", "cancel"} : ClientReceive(beh)
    \/ CancelEncryptRequest
    \/ ServerReceive

SpecModes == Init /\ [][NextModes]_vars

\* The messages of a log that carry a requestId
WithRequestId(log, requestId) ==
    {k \in 1 .. Len(log) : log[k].msg.requestId = requestId}

\* C16: an enableEncryption call that returned true sent one message, with
\* a requestId no other message of the session carries: a ws:encrypt frame
\* with mode, publicKey and salt from V1_0_0 on, else a commandRequest whose
\* commandLine starts with 'enableencryption '; the mode sent is the
\* caller's, or cfb8 when none was given.
C16_OneHandshakeRequest ==
    (op.name \in {"enableEncryption", "app.enableEncryption"}
     /\ op.ret = "true") =>
        /\ Len(op.out) = 1
        /\ op.id # Sentinel
        /\ Cardinality(WithRequestId(toClient, op.id)) = 1
        /\ LET m == op.out[1].msg
               mode == IF op.arg[1] = Absent THEN M_cfb8 ELSE op.arg[1]
           IN  /\ m.requestId = op.id
               /\ IF op.before.version >= V1_0_0
                  THEN /\ m.purpose = "ws:encrypt"
                       /\ m.body.mode = mode
                       /\ m.body.publicKey # Absent
                       /\ m.body.salt # Absent
                       /\ m.body.commandLine = <<>>
                  ELSE /\ m.purpose = "commandRequest"
                       /\ StartsWith(m.body.commandLine,
                                     EnableEncryptionPrefix)
                       /\ Split(m.body.commandLine)[4] = <<mode>>
                       /\ m.body.mode = Absent
                       /\ m.body.publicKey = Absent

\* enableEncryption() without a mode has sent a ws:encrypt frame
C16_Witness ==
    /\ op.name = "enableEncryption" /\ op.ret = "true"
    /\ op.arg = <<Absent>>
    /\ op.before.version = V1_0_0
    /\ op.out[1].msg.purpose = "ws:encrypt"
    /\ op.out[1].msg.body.mode = M_cfb8

(* ------------------------------- C17 ---------------------------------- *)
\* C17 (as stated): once a handshake has completed on both sides, server
\* and client hold the same cipher algorithm and the same key material: the
\* same salt and the same ECDH shared secret, hence the same K = SHA-256(salt
\* || secret).  Refuted through C5: a client whose encryption is active
\* derives a new key from a further request.
C17_SameKeyAndMode ==
    (session.encryption.active /\ client.encryption.active) =>
        /\ session.encryption.alg = client.encryption.alg
        /\ session.encryption.salt = client.encryption.salt
        /\ session.encryption.secret = client.encryption.secret

HandshakeTestCommands ==
    { StrCmd(<<W_say, SP, W_hi>>), StrCmd(<<W_enableencryption, SP, W_hi>>) }

\* Legacy handshakes and other commands, received by a client whose
\* 'command' listener tries handleEncryptionHandshake first
NextHandshake ==
    \/ EnableEncryption(Absent, "none")
    \/ \E cmd \in HandshakeTestCommands : SendCommand(cmd, "user")
    \/ ClientReceive("handshake")
    \/ ServerReceive

SpecHandshake == Init /\ [][NextHandshake]_vars

\* C19: handleEncryptionHandshake returns true exactly when the command line
\* starts with 'enableencryption '; it then has sent one commandResponse with
\* the client's public key, statusCode 0 and the request's requestId, and
\* the client holds a new active encryption; when it returns false the only
\* frame sent is the listener's own response and the client holds the
\* encryption it had, advanced by that response alone.
C19_HandshakeResult ==
    cObs.handshake # "none" =>
        /\ cObs.handshake \in {"true", "false"}
        /\ (cObs.handshake = "true") <=>
              StartsWith(cObs.frame.body.commandLine, EnableEncryptionPrefix)
        /\ cObs.handshake = "true" =>
              /\ Len(cObs.out) = 1
              /\ cObs.out[1].msg.purpose = "commandResponse"
              /\ cObs.out[1].msg.requestId = cObs.frame.requestId
              /\ cObs.out[1].msg.body =
                    LegacyEncryptResponseBody(
                        asOpenSSLPubKey(PubKeyOf(ClientPriv)))
              /\ client.encryption.active
              /\ client.encryption.obj # cObs.encBefore.obj
        /\ cObs.handshake = "false" =>
              /\ [client.encryption EXCEPT !.encPos = 0] =
                    [cObs.encBefore EXCEPT !.encPos = 0]
              /\ \A k \in 1 .. Len(cObs.out) :
                    cObs.out[k].msg.body = ResponseBodies.respond

(* ------------------------------- C20 ---------------------------------- *)
\* 'Steve', 'Alex', 'hello', 'Nice to meet you'
W_steve == 7
W_alex == 8
W_hello == 9
W_nice == 10

\* Chat subscriptions against a peer that sends chat events
NextChat ==
    \/ \E message \in {W_hello, Absent} :
          SubscribeChat(W_steve, W_alex, message)
    \/ \E requestId \in Ids : UnsubscribeChat(requestId)
    \/ UnsubscribeChatAll
    \/ ClientReceive("none")
    \/ ServerReceive
    \/ \E requestId \in Ids :
          ClientSendFrame("chat", requestId,
                          ChatEventBody("say", W_alex, W_steve, W_nice))

SpecChat == Init /\ [][NextChat]_vars

\* Whether the frames sent so far leave the chat subscription of requestId
\* in force: a chat:subscribe frame of that id with no chat:unsubscribe frame
\* for it, or for all, after it
SubscribedChat(log, requestId) ==
    \E k \in 1 .. Len(log) :
        /\ log[k].msg.purpose = "chat:subscribe"
        /\ log[k].msg.requestId = requestId
        /\ \A j \in k + 1 .. Len(log) :
              ~ /\ log[j].msg.purpose = "chat:unsubscribe"
                /\ log[j].msg.body.requestId \in {requestId, Absent}

\* C20: subscribeChat sends one chat:subscribe frame with the requestId it
\* returns and body {sender, receiver, message}; a chat frame received with
\* that requestId invokes the callback once, with sender, receiver,
\* chatMessage and chatType lifted from the body, exactly while the
\* subscription is in force; unsubscribeChat sends one chat:unsubscribe
\* frame with body.requestId when the subscription is in force and nothing
\* otherwise.
C20_ChatSubscription ==
    [][ /\ (op' # op /\ op'.name = "subscribeChat") =>
              /\ Len(op'.out) = 1
              /\ op'.out[1].msg.purpose = "chat:subscribe"
              /\ op'.out[1].msg.requestId = op'.id
              /\ WithRequestId(toClient, op'.id) = {}
              /\ op'.out[1].msg.body =
                    ChatSubscribeBody(op'.arg[1], op'.arg[2], op'.arg[3])
        /\ (op' # op /\ op'.name = "unsubscribeChat") =>
              IF SubscribedChat(toClient, op'.id)
              THEN /\ Len(op'.out) = 1
                   /\ op'.out[1].msg.purpose = "chat:unsubscribe"
                   /\ op'.out[1].msg.body = ChatUnsubscribeBody(op'.id)
              ELSE op'.out = <<>>
        /\ (sRead' = sRead + 1 /\ sObs'.parsed) =>
              LET frame == sObs'.frame
                  invoked == /\ frame.purpose = "chat"
                             /\ frame.requestId \in Ids
                             /\ SubscribedChat(toClient, frame.requestId)
              IN  /\ \A i \in Ids :
                        callbacks'[i] =
                           IF invoked /\ i = frame.requestId
                           THEN Append(callbacks[i], i) ELSE callbacks[i]
                  /\ invoked =>
                        /\ sObs'.chatFrame.sender = frame.body.chat.sender
                        /\ sObs'.chatFrame.receiver = frame.body.chat.receiver
                        /\ sObs'.chatFrame.chatMessage = frame.body.chat.message
                        /\ sObs'.chatFrame.chatType = frame.body.chat.type
      ]_vars

\* A chat frame has invoked the callback, and after unsubscribeChat a second
\* chat frame of the same requestId has not
C20_Witness ==
    \E i \in Ids :
        /\ Len(callbacks[i]) = 1
        /\ ~SubscribedChat(toClient, i)
        /\ sRead = 2
        /\ sObs.frame.purpose = "chat" /\ sObs.frame.requestId = i
        /\ sObs.chatFrame = <<>>

(* --------------------------- data requests ---------------------------- *)
\* ServerSession.fetchDataRaw
fetchDataRaw(s, requestId, dataType) ==
    sendFrame(s, DataPurpose(dataType), NoBody, requestId)

\* ServerSession.fetchData(dataType, callback): the responder is registered
\* before the frame is sent
fetchData(s, requestId, dataType, cb) ==
    fetchDataRaw(
        IF cb # "none"
        THEN setResponser(s, requestId,
                          Responder("data", cb, NoEncryption, Absent,
                                    "none")).sess
        ELSE s,
        requestId, dataType)

FetchData(dataType, cb) ==
    /\ nextId <= MaxId
    /\ CanSend(toClient)
    /\ LET requestId == randomUUID
           r == fetchData(session, requestId, dataType, cb)
       IN  /\ CanSetResponser(session, requestId) \/ cb = "none"
           /\ session' = r.sess
           /\ toClient' = Append(toClient, r.data)
           /\ op' = [ NoOp EXCEPT
                      !.name = "fetchData", !.id = requestId, !.ret = cb,
                      !.out = Sent(toClient, toClient') ]
    /\ nextId' = nextId + 1
    /\ UNCHANGED << nextObj, toServer, cRead, sRead, client, sObs, cObs,
                    callbacks, app, heard, server >>

\* WSClient.setDataResponser(dataType, responser): throws when a handler of
\* `data:${dataType}` is installed
setDataResponser(c, dataType) ==
    setHandler(c, DataPurpose(dataType), DataPurpose(dataType))

SetDataResponser(dataType) ==
    /\ LET r == setDataResponser(client, dataType)
       IN  /\ client' = r.sess
           /\ op' = [ NoOp EXCEPT !.name = "setDataResponser",
                                  !.arg = <<dataType>>,
                                  !.ret = IF r.threw THEN "throw"
                                          ELSE "undefined" ]
    /\ UNCHANGED << nextId, nextObj, toClient, toServer, cRead, sRead,
                    session, sObs, cObs, callbacks, app, heard, server >>

\* WSClient.clearDataResponser
clearDataResponser(c, dataType) == clearHandler(c, DataPurpose(dataType))

ClearDataResponser(dataType) ==
    /\ MapHas(client.handlerMap, DataPurpose(dataType))
    /\ client' = clearDataResponser(client, dataType)
    /\ op' = [ NoOp EXCEPT !.name = "clearDataResponser",
                           !.arg = <<dataType>> ]
    /\ UNCHANGED << nextId, nextObj, toClient, toServer, cRead, sRead,
                    session, sObs, cObs, callbacks, app, heard, server >>

\* Data requests against a client with data responders
NextData ==
    \/ \E dataType \in DataTypes, cb \in {"user", "none"} :
          FetchData(dataType, cb)
    \/ \E dataType \in DataTypes : SetDataResponser(dataType)
    \/ \E dataType \in DataTypes : ClearDataResponser(dataType)
    \/ \E beh \in DataBehaviours : ClientReceive(beh)
    \/ ServerReceive
SpecData == Init /\ [][NextData]_vars

\* The data type of the request the server sent with requestId
RequestedDataType(log, requestId) ==
    CHOOSE t \in DataTypes :
        \E k \in 1 .. Len(log) :
            /\ log[k].msg.requestId = requestId
            /\ log[k].msg.purpose = DataPurpose(t)

\* C21: when the client's data responder answers a fetchData(dataType, cb),
\* cb is invoked once with a frame whose requestId is the id fetchData
\* returned, whose body is the body the responder gave and whose dataType
\* is the requested dataType.
C21_DataFrameDelivered ==
    (sObs.frame.purpose = "data" /\ sObs.hasResponser)
        => /\ sObs.cbFrame # <<>>
           /\ Len(callbacks[sObs.frame.requestId]) = 1
           /\ sObs.cbFrame.requestId = sObs.frame.requestId
           /\ sObs.cbFrame.body = DataBody(W_there)
           /\ sObs.cbFrame.dataType
                 = RequestedDataType(toClient, sObs.frame.requestId)

\* The part of C21 that holds: one invocation, with the id and the body
C21_IdAndBody ==
    (sObs.frame.purpose = "data" /\ sObs.hasResponser)
        => /\ sObs.cbFrame # <<>>
           /\ Len(callbacks[sObs.frame.requestId]) = 1
           /\ sObs.cbFrame.requestId = sObs.frame.requestId
           /\ sObs.cbFrame.body = DataBody(W_there)
(* --------------------------- agent commands --------------------------- *)
\* ServerSession.sendAgentCommandRaw
sendAgentCommandRaw(s, requestId, cmd) ==
    sendFrame(s, "action:agent", CommandBody(CommandLineOf(cmd)), requestId)

\* ServerSession.sendAgentCommand(command, callback)
sendAgentCommand(s, requestId, cmd, cb) ==
    sendAgentCommandRaw(
        IF cb # "none"
        THEN setResponser(s, requestId,
                          Responder("agent", cb, NoEncryption, Absent,
                                    "none")).sess
        ELSE s,
        requestId, cmd)

SendAgentCommand(cmd, cb) ==
    /\ nextId <= MaxId
    /\ CanSend(toClient)
    /\ LET requestId == randomUUID
           r == sendAgentCommand(session, requestId, cmd, cb)
       IN  /\ CanSetResponser(session, requestId) \/ cb = "none"
           /\ session' = r.sess
           /\ toClient' = Append(toClient, r.data)
           /\ op' = [ NoOp EXCEPT
                      !.name = "sendAgentCommand", !.id = requestId,
                      !.ret = cb, !.out = Sent(toClient, toClient') ]
    /\ nextId' = nextId + 1
    /\ UNCHANGED << nextObj, toServer, cRead, sRead, client, sObs, cObs,
                    callbacks, app, heard, server >>

\* Agent commands against a client with an 'agentAction' listener
NextAgent ==
    \/ \E cmd \in Commands, cb \in {"user", "none"} :
          SendAgentCommand(cmd, cb)
    \/ \E beh \in AgentActionBehaviours : ClientReceive(beh)
    \/ ServerReceive
SpecAgent == Init /\ [][NextAgent]_vars

\* The server has just received an agent-action response to a request with
\* a callback, and the message before it was the command response of the
\* same request
AgentActionAfterCommandResponse ==
    /\ sObs.frame.purpose = "action:agent" /\ sObs.hasResponser
    /\ sRead >= 2
    /\ toServer[sRead - 1].msg.purpose = "commandResponse"
    /\ toServer[sRead - 1].msg.requestId = sObs.frame.requestId

\* C22: when the client answers a sendAgentCommand(line, cb) with a command
\* response and then an agent-action response of the same requestId, cb is
\* invoked exactly once, with the agent-action frame carrying action,
\* actionName and a commandResponse field holding the earlier command
\* response.
C22_AgentActionDelivered ==
    AgentActionAfterCommandResponse
        => /\ sObs.cbFrame # <<>>
           /\ Len(callbacks[sObs.frame.requestId]) = 1
           /\ sObs.cbFrame.requestId = sObs.frame.requestId
           /\ sObs.cbFrame.action = Inspect
           /\ sObs.cbFrame.actionName = "inspect"
           /\ sObs.cbFrame.body = DataBody(W_there)
           /\ sObs.cbFrame.commandResponse.defined
           /\ sObs.cbFrame.commandResponse.requestId = sObs.frame.requestId
           /\ sObs.cbFrame.commandResponse.body = toServer[sRead - 1].msg.body

\* The part of C22 that holds: one invocation, with the agent-action frame,
\* action and actionName
C22_ActionAndName ==
    AgentActionAfterCommandResponse
        => /\ sObs.cbFrame # <<>>
           /\ Len(callbacks[sObs.frame.requestId]) = 1
           /\ sObs.cbFrame.requestId = sObs.frame.requestId
           /\ sObs.cbFrame.action = Inspect
           /\ sObs.cbFrame.actionName = "inspect"
           /\ sObs.cbFrame.body = DataBody(W_there)
(* ------------------------------- events ------------------------------- *)
\* new WSClient(address, version): the version the client is constructed
\* with
NewClientVersion(version) ==
    /\ toClient = <<>> /\ toServer = <<>> /\ op = NoOp
    /\ client.version # version
    /\ client' = [client EXCEPT !.version = version]
    /\ UNCHANGED << nextId, nextObj, toClient, toServer, cRead, sRead,
                    session, sObs, cObs, callbacks, app, op, heard, server >>

\* The application calls client.sendEvent(eventName, body) with a body that
\* repeats the name as its data and has an eventName entry of its own (own)
\* or none (Absent)
SendEvent(eventName, own) ==
    LET r == sendEvent(client, eventName,
                       [DataBody(eventName) EXCEPT !.eventName = own])
    IN  /\ CanSend(toServer)
        /\ client' = r.sess
        /\ toServer' = Append(toServer, r.data)
        /\ UNCHANGED << nextId, nextObj, toClient, cRead, sRead, session,
                        sObs, cObs, callbacks, app, op, heard, server >>

\* Events of every name sent by clients of every dialect to a server with
\* listeners
NextEvent ==
    \/ \E version \in {V0_0_1, V1_0_0, V1_1_0} : NewClientVersion(version)
    \/ \E eventName \in EventNames : Subscribe(eventName, "L1")
    \/ \E eventName \in EventNames \cup {EmptyName}, own \in {Absent, 2} :
          SendEvent(eventName, own)
    \/ ServerReceive
SpecEvent == Init /\ [][NextEvent]_vars

\* C23: an event sent with sendEvent(name, body) by a client of any version
\* is resolved by the server to exactly name (here also the data of the
\* body), and the listeners the server holds for name, and only they, run.
C23_EventNameResolved ==
    [][ (sRead' = sRead + 1 /\ sObs'.parsed /\ sObs'.frame.purpose = "event")
          => /\ sObs'.handler = 1
             /\ sObs'.eventName = sObs'.frame.body.data
             /\ sObs'.invoked = ListenersOf(session, sObs'.frame.body.data)
      ]_vars

\* An event of the older dialect, its name in the body, has run a listener
C23_Witness ==
    /\ sObs.parsed /\ sObs.frame.purpose = "event"
    /\ sObs.frame.eventName = Absent
    /\ sObs.frame.body.eventName = sObs.frame.body.data
    /\ sObs.eventName \in EventNames
    /\ sObs.invoked # {}
(* --------------------------- AppSession.once -------------------------- *)
\* The application calls app.once(eventName, listener); its wrapped listener
\* and holder are new closures, numbered by nextId
Once(eventName, throws) ==
    /\ nextId <= MaxId
    /\ nextId' = nextId + 1
    /\ LET r == once(session, eventName, nextId, throws)
       IN  /\ Len(toClient) + Len(r.out) <= MaxMsgs
           /\ session' = r.sess
           /\ toClient' = toClient \o r.out
           /\ op' = [ NoOp EXCEPT !.name = "once", !.id = nextId,
                                  !.out = Sent(toClient, toClient'),
                                  !.arg = <<eventName>> ]
    /\ UNCHANGED << nextObj, toServer, cRead, sRead, client, sObs, cObs,
                    callbacks, app, heard, server >>

\* once and on listeners against a peer that sends events
NextOnce ==
    \/ \E eventName \in EventNames, throws \in BOOLEAN :
          Once(eventName, throws)
    \/ Subscribe(1, "L1")
    \/ Unsubscribe(1, "L1")
    \/ \E eventName \in EventNames :
          ClientSendFrame("event", Sentinel, EventNameBody(eventName))
    \/ ServerReceive
SpecOnce == Init /\ [][NextOnce]_vars

\* C24: the listener of a once is invoked at most once however many events
\* arrive, and an unsubscribe frame sent while an event is dispatched comes
\* after the call of the listener, never before it.
C24_OnceListener ==
    /\ \A k \in Ids : Len(callbacks[k]) <= 1
    /\ \A i \in DOMAIN sObs.trace :
          sObs.trace[i] = "unsubscribe"
             => \E j \in 1 .. i - 1 : sObs.trace[j] = "listener"

\* An event has called the listener of a once and the unsubscribe frame
\* followed
C24_Witness ==
    /\ \E k \in Ids : Len(callbacks[k]) = 1
    /\ sObs.trace = <<"listener", "unsubscribe">>
(* ---------------------------- socket close ---------------------------- *)
\* The 'close' listener of the Session constructor: the socket closes, by
\* the peer or by disconnect(true), and the session emits 'disconnect'
SocketClose ==
    /\ session.socket = "open"
    /\ session' = [session EXCEPT !.socket = "closed"]
    /\ sObs' = [sObs EXCEPT !.disconnects = @ + 1]
    /\ UNCHANGED << nextId, nextObj, toClient, toServer, cRead, sRead, client,
                    cObs, callbacks, app, op, heard, server >>

\* Commands with callbacks, answered by the peer, and the socket closing at
\* any moment
NextClose ==
    \/ \E cmd \in Commands : SendCommand(cmd, "user")
    \/ \E beh \in {"none", "respond", "respondError"} : ClientReceive(beh)
    \/ ServerReceive
    \/ SocketClose
SpecClose == Init /\ [][NextClose]_vars

ServerSendFrame(purpose, requestId, body) ==
    LET r == sendFrame(session, purpose, body, requestId)
    IN  /\ CanSend(toClient)
        /\ session' = r.sess
        /\ toClient' = Append(toClient, r.data)
        /\ UNCHANGED << nextId, nextObj, toServer, cRead, sRead, client, sObs,
                        cObs, callbacks, app, op, heard, server >>

\* A client receiving commands and error frames
NextClientErr ==
    \/ \E cmd \in Commands : SendCommand(cmd, "user")
    \/ \E requestId \in Ids \cup {Sentinel}, body \in ErrorBodies :
          ServerSendFrame("error", requestId, body)
    \/ \E beh \in {"none", "respond"} : ClientReceive(beh)
    \/ ServerReceive
SpecClientErr == Init /\ [][NextClientErr]_vars

\* C26: a WSClient that receives a frame of purpose error emits its 'error'
\* event, carrying the frame's statusCode, statusMessage and requestId.
C26_ClientSurfacesError ==
    (cObs.parsed /\ cObs.frame.purpose = "error")
        => /\ "error" \in cObs.emits
           /\ cObs.clientError = ClientError(cObs.frame)
(* -------------------------- throwing callbacks ------------------------ *)
\* C27: when a responder throws while handling an inbound frame, the
\* exception is emitted as 'error' and the rest of the dispatch of that
\* frame is skipped: no purpose handler and no customFrame; when a purpose
\* handler throws, no customFrame.
C27_ThrowStopsDispatch ==
    /\ sObs.respRet = "throw"
          => /\ "error" \in sObs.emits
             /\ sObs.handler = 0
             /\ sObs.customFrame = 0
    /\ sObs.handRet = "throw"
          => /\ "error" \in sObs.emits
             /\ sObs.customFrame = 0

\* The part of C27 that holds: the exception is emitted as 'error'
C27_ThrowEmitsError ==
    (sObs.respRet = "throw" \/ sObs.handRet = "throw")
        => "error" \in sObs.emits /\ sObs.errors >= 1
(* ----------------------- decoding around a handshake ----------------- *)
\* C28: around a handshake each side decodes every inbound frame to the
\* frame its peer encoded: a plaintext frame is not run through the
\* decipher and a ciphertext frame is deciphered, not parsed as plaintext.
C28_DecodedAsEncoded ==
    \A o \in Observations :
        o.wire # Plain(NoMessage)
            => /\ o.deciphered = o.wire.cipher
               /\ o.parsed
               /\ o.frame = o.wire.msg

\* The half of C28 that holds: no plaintext frame is run through the
\* decipher
C28_PlaintextNotDeciphered ==
    \A o \in Observations :
        (o.wire # Plain(NoMessage) /\ ~o.wire.cipher) => ~o.deciphered

\* A frame the server sent in plaintext after its handshake request has
\* reached a client whose encryption is active, and was parsed as sent
C28_PlaintextAfterRequest ==
    /\ cObs.encBefore.active /\ ~cObs.wire.cipher
    /\ cObs.parsed /\ cObs.frame.purpose = "commandRequest"
    /\ cObs.frame = cObs.wire.msg
(* --------------------------- the encrypted flag ----------------------- *)
\* A step in which the session s, s2 after the step, completes a handshake:
\* a new encryption object is installed
CompletesHandshake(s, s2) ==
    s2.encryption.active /\ s2.encryption.obj # s.encryption.obj

\* The flag of one side over a step that takes the session from s to s2;
\* received tells whether the step is the receipt of a message, o is the
\* observation of that receipt
FlagStep(s, s2, received, o) ==
    /\ s.encrypted => s2.encrypted
    /\ ~received => s2.encrypted = s.encrypted
    /\ (received /\ ~s.encryption.active) => s2.encrypted = s.encrypted
    /\ (received /\ s.encryption.active)
          => /\ s2.encrypted = (s.encrypted \/ ~StartsWithBrace(o.wire))
             /\ o.deciphered = s2.encrypted

\* C29: the encrypted flag of a session is false right after its handshake
\* completes, becomes true at the first inbound message that does not start
\* with '{' and never becomes false again; while encryption is active and
\* the flag is false a message starting with '{' is parsed without the
\* decipher, and once the flag is true every inbound message is deciphered.
C29_EncryptedFlag ==
    [][ /\ CompletesHandshake(session, session') => ~session'.encrypted
        /\ CompletesHandshake(client, client') => ~client'.encrypted
        /\ FlagStep(session, session', sRead' # sRead, sObs')
        /\ FlagStep(client, client', cRead' # cRead, cObs') ]_vars

\* C29 without its first clause: how the flag latches and what it decides
C29_FlagLatches ==
    [][ /\ FlagStep(session, session', sRead' # sRead, sObs')
        /\ FlagStep(client, client', cRead' # cRead, cObs') ]_vars
(* ------------------------ failed legacy handshake --------------------- *)
\* Legacy handshakes against a peer that answers with a public key or with
\* text that is no key
NextLegacyFail ==
    \/ \E callback \in {"none", "user"} : EnableEncryption(Absent, callback)
    \/ \E requestId \in Ids,
          pk \in {W_hi, asOpenSSLPubKey(PubKeyOf(ClientPriv))} :
          ClientSendFrame("commandResponse", requestId,
                          LegacyEncryptResponseBody(pk))
    \/ ServerReceive
SpecLegacyFail == Init /\ [][NextLegacyFail]_vars

\* The last frame the server received made the completion closure of
\* enableEncryption throw
HandshakeFailed == sObs.hasResponser /\ sObs.respRet = "throw"

\* C30: in the legacy dialect, when completing the key exchange fails on the
\* server, the failure is emitted as 'error', the session stays unencrypted,
\* and no later enableEncryption call on the session succeeds.
C30_NoHandshakeAfterFailure ==
    [][ /\ HandshakeFailed'
              => "error" \in sObs'.emits /\ ~session'.encryption.active
        /\ (HandshakeFailed /\ op' # op /\ op'.name = "enableEncryption")
              => op'.ret = "false" ]_vars

\* The part of C30 that holds: the failure is emitted as 'error' and leaves
\* the session unencrypted
C30_FailureSurfaces ==
    HandshakeFailed => "error" \in sObs.emits /\ ~session.encryption.active
(* ------------------- responses to cancelled commands ------------------ *)
\* C31: a commandResponse that arrives after its awaited command has been
\* cancelled finds no responder and is emitted as 'customFrame'.
C31_LateResponseIsCustomFrame ==
    [][ (/\ sRead' = sRead + 1
         /\ sObs'.parsed /\ sObs'.frame.purpose = "commandResponse"
         /\ app[sObs'.frame.requestId].cancelled)
          => /\ ~sObs'.hasResponser
             /\ "customFrame" \in sObs'.emits ]_vars

\* The part of C31 that holds: the late response finds no responder; it is
\* emitted as 'commandResponse'
C31_LateResponseIsCommandResponse ==
    [][ (/\ sRead' = sRead + 1
         /\ sObs'.parsed /\ sObs'.frame.purpose = "commandResponse"
         /\ app[sObs'.frame.requestId].cancelled)
          => /\ ~sObs'.hasResponser
             /\ "commandResponse" \in sObs'.emits
             /\ "customFrame" \notin sObs'.emits ]_vars
(* ------------------------ repeated data requests ---------------------- *)
\* The client receives, in this step, a request for the data type of the
\* setDataResponser call that was the last call made
DataRequestAfterSet ==
    /\ op.name = "setDataResponser" /\ op.ret = "undefined"
    /\ cRead' = cRead + 1 /\ cObs'.parsed
    /\ cObs'.frame.purpose = DataPurpose(op.arg[1])

\* The step invokes the responser, and a responser that calls respond(body)
\* sends one data response with the request's requestId and the header
\* { dataType, type: 0 }
DataRequestAnswered ==
    /\ cObs'.handler = 1
    /\ cObs'.beh = "respondData"
          => /\ Len(cObs'.out) = 1
             /\ cObs'.out[1].msg.purpose = "data"
             /\ cObs'.out[1].msg.requestId = cObs'.frame.requestId
             /\ cObs'.out[1].msg.dataType = op.arg[1]
             /\ cObs'.out[1].msg.type = 0

\* C32: after setDataResponser(dataType, fn) every data:<dataType> request
\* received before clearDataResponser invokes fn once, and respond(body)
\* sends the data response; the second and later requests as the first.
C32_EveryDataRequestAnswered ==
    [][ DataRequestAfterSet => DataRequestAnswered ]_vars

\* The part of C32 that holds: a request that finds the handler installed
\* is answered, and the handler is gone afterwards
C32_InstalledHandlerAnswersOnce ==
    [][ (DataRequestAfterSet /\ MapHas(client.handlerMap, cObs'.frame.purpose))
          => /\ DataRequestAnswered
             /\ ~MapHas(client'.handlerMap, cObs'.frame.purpose) ]_vars

(* ------------------ inbound messages that do not parse ---------------- *)
\* The peer writes the JSON text of msg to its socket itself
ClientSendEnvelope(msg) ==
    /\ CanSend(toServer)
    /\ toServer' = Append(toServer, Plain(msg))
    /\ UNCHANGED << nextId, nextObj, toClient, cRead, sRead, session, client,
                    sObs, cObs, callbacks, app, op, heard, server >>

\* Commands with callbacks against a peer that answers and also sends bytes
\* that are not JSON and envelopes without a header or with an empty one
NextParse ==
    \/ \E cmd \in AppCommands, cb \in UserCallbacks : SendCommand(cmd, cb)
    \/ \E beh \in {"none", "respond"} : ClientReceive(beh)
    \/ ServerReceive
    \/ ClientSendMalformed
    \/ \E msg \in {NoHeaderMessage, EmptyHeaderMessage} :
          ClientSendEnvelope(msg)

SpecParse == Init /\ [][NextParse]_vars

\* The message the server session receives in this step is not JSON, or is
\* JSON without a header carrying a purpose
UnusableReceived ==
    /\ sRead' = sRead + 1
    /\ \/ toServer[sRead + 1] = Malformed
       \/ toServer[sRead + 1].msg.header # "object"

\* What the session does with a message it discards
Discarded ==
    /\ sObs'.errors = 1
    /\ sObs'.emits = {"error"}
    /\ sObs'.message = 0
    /\ sObs'.responser = 0 /\ sObs'.handler = 0 /\ sObs'.customFrame = 0
    /\ session'.responserMap = session.responserMap
    /\ session'.handlerMap = session.handlerMap

\* C33: an inbound message that is not valid JSON or has no usable header
\* makes the session emit 'error' exactly once and nothing else: no
\* 'message', no responder, no handler, no 'customFrame', and the responder
\* and handler tables stay as they were.
C33_UnusableDiscarded == [][ UnusableReceived => Discarded ]_vars

\* The part that holds: a message on which JSON.parse or the destructuring
\* of the header throws is discarded that way.
C33_ThrowingDiscarded ==
    [][ (sRead' = sRead + 1 /\ ~sObs'.parsed) => Discarded ]_vars
\* A response reaches its responder after bytes that were not JSON
C33_LaterFrameDispatched ==
    /\ sObs.parsed /\ sObs.responser = 1
    /\ \E i \in 1 .. sRead - 1 : toServer[i] = Malformed

(* ------------------- the version of a session ------------------------- *)
\* C34: a session's version starts at V0_0_1 and is raised whenever an
\* inbound frame's header.version is higher: after receiving a frame with
\* version v the session's version is at least v.
C34_VersionFollowsPeer ==
    [][ (sRead' = sRead + 1 /\ sObs'.parsed)
          => session'.version >= toServer[sRead + 1].msg.version ]_vars

\* The part that holds: the 'message' listener copies header.version into
\* the frame and leaves this.version as it was.
C34_ReceiveKeepsVersion ==
    [][ sRead' = sRead + 1
          => /\ session'.version = session.version
             /\ sObs'.parsed
                  => sObs'.frame.version = toServer[sRead + 1].msg.version
       ]_vars

(* ------------------- listeners and the generic event ------------------ *)
\* Listeners of the application and of AppSession.once, one of which
\* subscribes another when called, against a peer that sends event and
\* chat frames with and without a name
NextListen ==
    \/ \E listener \in {"L1", SubscribingListener} : Subscribe(1, listener)
    \/ \E throws \in BOOLEAN : Once(1, throws)
    \/ \E purpose \in {"event", "chat"}, eventName \in {1, Absent} :
          ClientSendFrame(purpose, Sentinel, EventNameBody(eventName))
    \/ ServerReceive
SpecListen == Init /\ [][NextListen]_vars

\* The server session dispatches an event or chat frame in this step
EventDispatched ==
    /\ sRead' = sRead + 1
    /\ sObs'.parsed
    /\ sObs'.frame.purpose \in {"event", "chat"}

\* C35: an event or chat frame makes the session invoke every listener
\* subscribed under the resolved event name without emitting 'event'; only
\* when no listener is subscribed under that name is 'event' emitted.
C35_ListenersOrEvent ==
    [][ EventDispatched
          => /\ sObs'.handler = 1
             /\ IF ListenersOf(session, sObs'.eventName) # {}
                THEN /\ ListenersOf(session, sObs'.eventName)
                           \subseteq sObs'.invoked
                     /\ "event" \notin sObs'.emits
                ELSE /\ sObs'.invoked = {}
                     /\ "event" \in sObs'.emits
                     /\ sObs'.errors = 0 ]_vars

\* Both cases have happened: a chat frame was handed to listeners, and an
\* event frame went to 'event'
C35_Witness ==
    /\ sObs.parsed /\ sObs.frame.purpose = "chat"
    /\ sObs.invoked # {} /\ "event" \notin sObs.emits
    /\ \E i \in 1 .. sRead - 1 :
          /\ toServer[i].msg.purpose = "event"
          /\ toServer[i].msg.body.eventName = Absent

\* C36: the listeners invoked for one event frame are exactly those
\* registered when its dispatch started, whatever the listeners do to the
\* subscriptions meanwhile, and a listener that throws is reported as
\* 'error' while the others still run.
C36_ListenersAtStart ==
    [][ EventDispatched
          => /\ sObs'.invoked = ListenersOf(session, sObs'.eventName)
             /\ sObs'.errors =
                   Cardinality({ l \in ListenersOf(session, sObs'.eventName) :
                                   \E k \in DOMAIN ThrowingListeners :
                                       l = ThrowingListeners[k] })
             /\ sObs'.errors > 0 => "error" \in sObs'.emits ]_vars

\* One dispatch in which a listener threw, a holder was unsubscribed by an
\* earlier listener and still ran, and a listener was subscribed and did
\* not run
C36_Witness ==
    /\ sObs.parsed /\ sObs.errors > 0
    /\ SubscribedLate \in ListenersOf(session, sObs.eventName) \ sObs.invoked
    /\ \E k \in DOMAIN HolderListeners :
          HolderListeners[k]
              \in sObs.invoked \ ListenersOf(session, sObs.eventName)

(* ----------------------- the 'message' event -------------------------- *)
\* C37: for every inbound frame that parses, 'message' is emitted exactly
\* once and before the responder, the purpose handler and the customFrame
\* listeners see the frame, whichever of them do; for a message that does
\* not parse it is not emitted.
C37_MessageFirst ==
    IF sObs.parsed
    THEN /\ sObs.message = 1
         /\ "message" \in sObs.emits
         /\ Len(sObs.order)
              = 1 + sObs.responser + sObs.handler + sObs.customFrame
         /\ sObs.order[1] = "message"
         /\ \A i \in 2 .. Len(sObs.order) : sObs.order[i] # "message"
    ELSE sObs.order = <<>> /\ "message" \notin sObs.emits

\* A response whose callback threw went to the responder and to the handler
\* after 'message', and before it a frame without purpose went to
\* customFrame
C37_Witness ==
    /\ sObs.order = <<"message", "responser", "handler">>
    /\ \E i \in 1 .. sRead - 1 : toServer[i] = Plain(EmptyHeaderMessage)

(* ------------------------------ WSServer ------------------------------ *)
\* 'closewebsocket'
W_closewebsocket == 14

\* A faulty variant of onConnection that does not record the session
onConnectionForgets(w, i) ==
    [w EXCEPT !.socket[i] = "open",
              !.session[i] = NewServerSession(w.version)]

\* WSServer constructor, 'connection' listener: a ServerSession for the
\* socket, added to this.sessions
onConnection(w, i) ==
    [w EXCEPT !.socket[i] = "open",
              !.session[i] = NewServerSession(w.version),
              !.sessions = @ \cup {i}]

\* The 'close' listeners of a socket: the one of the 'connection' listener
\* (this.sessions.delete(session)) and the one of the Session constructor
onClose(w, i) ==
    [w EXCEPT !.socket[i] = "closed",
              !.session[i].socket = "closed",
              !.sessions = @ \ {i}]

\* The request id randomUUID() yields for session i when sessions.forEach
\* reaches it, first being the next fresh id
IdFor(w, i, first) == first + Cardinality({j \in w.sessions : j < i})

\* sessions.forEach((e) => ...): visit(i) is what the body does to session
\* i, a record of the session afterwards (sess) and the messages it wrote
\* (out); the sessions outside the Set are left alone
forEachSession(w, visit) ==
    [w EXCEPT !.session = [i \in Sockets |->
                              IF i \in w.sessions THEN visit[i].sess ELSE @[i]],
              !.sent = [i \in Sockets |->
                           IF i \in w.sessions THEN @[i] \o visit[i].out
                           ELSE @[i]]]

\* WSServer.broadcastCommand(command, callback)
broadcastCommand(w, first, cmd, cb) ==
    forEachSession(w,
        [ i \in Sockets |->
            LET r == sendCommand(w.session[i], IdFor(w, i, first), cmd, cb,
                                 NoEncryption, Absent, "none")
            IN  [sess |-> r.sess, out |-> <<r.data>>] ])

\* WSServer.broadcastSubscribe(eventName, callback)
broadcastSubscribe(w, eventName, listener) ==
    forEachSession(w,
        [i \in Sockets |-> subscribe(w.session[i], eventName, listener)])

\* WSServer.broadcastUnsubscribe(eventName, callback)
broadcastUnsubscribe(w, eventName, listener) ==
    forEachSession(w,
        [i \in Sockets |-> unsubscribe(w.session[i], eventName, listener)])

\* ServerSession.disconnect(force): socket.close(), or the command
\* 'closewebsocket' without a callback
disconnect(s, force, requestId) ==
    IF force THEN [sess |-> s, out |-> <<>>]
    ELSE LET r == sendCommand(s, requestId, StrCmd(<<W_closewebsocket>>),
                              "none", NoEncryption, Absent, "none")
         IN  [sess |-> r.sess, out |-> <<r.data>>]

\* WSServer.disconnectAll(force); socket.close() starts the closing
\* handshake of every socket it is called on
disconnectAll(w, first, force) ==
    [ forEachSession(w,
          [ i \in Sockets |->
              disconnect(w.session[i], force, IdFor(w, i, first)) ])
      EXCEPT !.socket = [i \in Sockets |->
                            IF force /\ i \in w.sessions /\ @[i] = "open"
                            THEN "closing" ELSE @[i]] ]

\* A call on the WSServer, or an event of one of its sockets
ServerStep(name, arg, w, ids) ==
    /\ nextId + ids <= MaxId + 1
    /\ \A i \in Sockets : Len(w.sent[i]) <= MaxMsgs
    /\ server' = w
    /\ nextId' = nextId + ids
    /\ op' = [NoOp EXCEPT !.name = name, !.arg = arg]
    /\ UNCHANGED << nextObj, toClient, toServer, cRead, sRead, session,
                    client, sObs, cObs, callbacks, app, heard >>

\* A client connects on socket i
Connection(i) ==
    /\ server.socket[i] = "none"
    /\ ServerStep("connection", <<i>>, onConnection(server, i), 0)

\* Socket i emits 'close'
SocketClosed(i) ==
    /\ server.socket[i] \in {"open", "closing"}
    /\ ServerStep("close", <<i>>, onClose(server, i), 0)

BroadcastCommand(cmd, cb) ==
    ServerStep("broadcastCommand", <<cb>>,
               broadcastCommand(server, nextId, cmd, cb),
               Cardinality(server.sessions))

BroadcastSubscribe(eventName, listener) ==
    ServerStep("broadcastSubscribe", <<eventName, listener>>,
               broadcastSubscribe(server, eventName, listener), 0)

BroadcastUnsubscribe(eventName, listener) ==
    ServerStep("broadcastUnsubscribe", <<eventName, listener>>,
               broadcastUnsubscribe(server, eventName, listener), 0)

DisconnectAll(force) ==
    ServerStep("disconnectAll", <<force>>,
               disconnectAll(server, nextId, force),
               IF force THEN 0 ELSE Cardinality(server.sessions))

\* Clients connecting and leaving at any moment while the application
\* broadcasts
NextServer ==
    \/ \E i \in Sockets : Connection(i)
    \/ \E i \in Sockets : SocketClosed(i)
    \/ \E cmd \in AppCommands : BroadcastCommand(cmd, "user")
    \/ BroadcastSubscribe(1, "L1")
    \/ BroadcastUnsubscribe(1, "L1")
    \/ \E force \in BOOLEAN : DisconnectAll(force)
SpecServer == Init /\ [][NextServer]_vars

\* The sessions created on accept whose sockets have not closed
LiveSessions(w) == {i \in Sockets : w.socket[i] \in {"open", "closing"}}

\* The sessions one step wrote a message to, and those it changed
WrittenTo == {i \in Sockets : Len(server'.sent[i]) > Len(server.sent[i])}
Touched ==
    {i \in Sockets : \/ server'.session[i] # server.session[i]
                     \/ server'.sent[i] # server.sent[i]
                     \/ server'.socket[i] # server.socket[i]}

\* What a broadcast does, told from the sessions before and after it
BroadcastActsOn(live) ==
    /\ op'.name = "broadcastCommand"
         => /\ WrittenTo = live
            /\ \A i \in live :
                  /\ Cardinality(DOMAIN server'.session[i].responserMap)
                       = Cardinality(DOMAIN server.session[i].responserMap) + 1
                  /\ Len(server'.sent[i]) = Len(server.sent[i]) + 1
    /\ op'.name = "broadcastSubscribe"
         => \A i \in live :
               op'.arg[2] \in ListenersOf(server'.session[i], op'.arg[1])
    /\ op'.name = "broadcastUnsubscribe"
         => \A i \in live :
               op'.arg[2] \notin ListenersOf(server'.session[i], op'.arg[1])
    /\ (op'.name = "disconnectAll" /\ op'.arg[1])
         => \A i \in live : server'.socket[i] = "closing"
    /\ (op'.name = "disconnectAll" /\ ~op'.arg[1])
         => WrittenTo = live
    /\ op'.name \in {"broadcastCommand", "broadcastSubscribe",
                     "broadcastUnsubscribe", "disconnectAll"}
         => Touched \subseteq live

\* C38: the session set of the WSServer is at all times the set of sessions
\* created on accept whose sockets have not closed, it changes only when a
\* client connects and when a socket closes, and the four broadcast calls
\* act on exactly those sessions.
C38_SessionsAreLive ==
    [][ /\ server.sessions = LiveSessions(server)
        /\ server'.sessions = LiveSessions(server')
        /\ server'.sessions # server.sessions
              => \/ /\ op'.name = "connection"
                    /\ server'.sessions = server.sessions \cup {op'.arg[1]}
                 \/ /\ op'.name = "close"
                    /\ server'.sessions = server.sessions \ {op'.arg[1]}
        /\ BroadcastActsOn(LiveSessions(server)) ]_vars

\* A broadcast command reached the one connected session after another
\* socket had closed, and a socket the application disconnected is closing
C38_Witness ==
    /\ op.name = "broadcastCommand"
    /\ \E i, j \in Sockets :
          /\ server.socket[i] = "closed" /\ server.sent[i] = <<>>
          /\ server.socket[j] = "open" /\ Len(server.sent[j]) = 1
          /\ server.sessions = {j}

(* ------------------ handshakes that are never answered ---------------- *)
\* Handshakes of both dialects with a peer that cancels every V2 request,
\* ignores the legacy command, and sends events of its own
NextStall ==
    \/ SetVersion(V1_0_0)
    \/ \E modeArg \in {Absent} \cup Modes : EnableEncryption(modeArg, "none")
    \/ \E beh \in {"none", "cancel"} :
          /\ cRead < Len(toClient)
          /\ (beh = "cancel")
                <=> (toClient[cRead + 1].msg.purpose = "ws:encrypt")
          /\ ClientReceive(beh)
    \/ \E eventName \in EventNames :
          ClientSendFrame("event", Sentinel, EventNameBody(eventName))
    \/ ServerReceive
SpecStall == Init /\ [][NextStall]_vars

\* A handshake request of either dialect
IsHandshakeRequest(msg) ==
    \/ msg.purpose = "ws:encrypt"
    \/ /\ msg.purpose = "commandRequest"
       /\ StartsWith(msg.body.commandLine, EnableEncryptionPrefix)

HandshakeRequests ==
    {k \in DOMAIN toClient : IsHandshakeRequest(toClient[k].msg)}

\* C39: after a handshake request that the client cancels or never answers
\* the server session stays in the key-exchanging state: unencrypted, with
\* the handshake responder registered, and every later enableEncryption
\* returns false and sends nothing.
C39_StaysExchanging ==
    /\ Cardinality(HandshakeRequests) <= 1
    /\ \A k \in HandshakeRequests :
          /\ session.exchangingKey
          /\ ~session.encryption.active /\ ~session.encrypted
          /\ MapHas(session.responserMap, toClient[k].msg.requestId)
    /\ op.name = "enableEncryption"
          => IF op.out = <<>>
             THEN op.ret = "false" /\ HandshakeRequests # {}
             ELSE op.ret = "true" /\ IsHandshakeRequest(op.out[1].msg)

\* enableEncryption has returned false after the client cancelled the
\* request and the server received an event of the client
C39_Witness ==
    /\ op.name = "enableEncryption" /\ op.ret = "false"
    /\ cObs.beh = "cancel" /\ client.encryptRequest.cancelled
    /\ sObs.parsed /\ sObs.frame.purpose = "event"
    /\ session.exchangingKey

(* ------------------- where a command response goes -------------------- *)
\* The server session receives a commandResponse frame in this step
ResponseReceived ==
    /\ sRead' = sRead + 1
    /\ sObs'.parsed
    /\ sObs'.frame.purpose = "commandResponse"
    /\ sObs'.frame.requestId \in Ids

\* The callback registered for the frame's requestId was called with it
ToCallback ==
    Len(callbacks'[sObs'.frame.requestId])
        = Len(callbacks[sObs'.frame.requestId]) + 1
\* The frame was emitted as 'commandResponse'
ToEvent == "commandResponse" \in sObs'.emits

\* C40: a commandResponse frame goes to exactly one of the callback given to
\* sendCommand for its requestId and the 'commandResponse' event, and to
\* the event exactly when no responder is registered for its requestId.
C40_CallbackXorEvent ==
    [][ ResponseReceived
          => /\ ToCallback # ToEvent
             /\ ToEvent <=> ~MapHas(session.responserMap,
                                    sObs'.frame.requestId) ]_vars

\* The part that holds: a response goes to the callback when a responder is
\* registered for its requestId, to the event when none is, and so never to
\* neither; it goes to both only when the callback threw.
C40_NeverNeither ==
    [][ ResponseReceived
          => /\ ToCallback <=> MapHas(session.responserMap,
                                      sObs'.frame.requestId)
             /\ ~ToCallback => ToEvent
             /\ (ToCallback /\ ToEvent) <=> sObs'.respRet = "throw" ]_vars
====
